---- MODULE Spec2Model ----
(***************************************************************************)
(* LogoCrawler (py/logocrawler/crawler.py): the asyncio work queue, the    *)
(* worker coroutines with retry and exponential backoff, the semaphore,    *)
(* the result list and the run counters.                                   *)
(*                                                                         *)
(* One action is one run of a coroutine between two suspension points      *)
(* (await work_queue.get(), await asyncio.sleep(..), the semaphore, the    *)
(* HTTP request, await work_queue.join(), await asyncio.gather(..)): the   *)
(* event loop runs everything between two of them without interleaving.    *)
(* Time is a clock in whole seconds that advances while a coroutine is     *)
(* inside asyncio.sleep.                                                   *)
(*                                                                         *)
(* The attempts list of a task is one Python list, created by              *)
(* populate_work_queue and handed on by every retry: `occ` is its          *)
(* identity (the position of the domain in the input). Its content is      *)
(* kept in the record that refers to it: only the worker holding the task  *)
(* appends to it, before the retry task or the result is built.            *)
(***************************************************************************)
EXTENDS Integers, Sequences, FiniteSets, TLC

\* ------------------------------------------------------------------ bounds
MaxDomains == 2      \* longest short domain list

\* def __init__(self, domains, max_retry=3, min_delay=0.5)
DefaultMaxRetry == 3
\* self.concurrent_workers = max(1, len(domains) // 50)
DomainsPerWorker == 50

\* --------------------------------------------------------------- constants
LOGO_FOUND == "JSONLD_LOGO_FOUND"
NOTHING_FOUND == "NOTHING_FOUND"
FAVICON_FOUND == "FAVICON_FOUND"
FALLBACK_FAVICON_FOUND == "FALLBACK_FAVICON_FOUND"
FAILURE_MSG == "FAILURE"

SuccessStatuses == {LOGO_FOUND, FAVICON_FOUND, FALLBACK_FAVICON_FOUND}

\* Python's None where a string or a list is expected, a missing dict key,
\* and None in the integer-valued last_attempt_timestamp field.
None == "None"
Absent == "<absent>"
NoTimestamp == -1

\* time.time() is seconds since 1970: far from 0 when the crawler runs.
StartTime == 1

\* The domain names the lists are drawn from: for a.com and b.com a fetch may
\* end in any way, ok.com always serves a page with a JSON-LD logo.
Names == {"a.com", "b.com"}
StableName == "ok.com"

\* --------------------------------------------------------------- helpers
Max(a, b) == IF a >= b THEN a ELSE b

RECURSIVE Pow2(_)
Pow2(n) == IF n <= 0 THEN 1 ELSE 2 * Pow2(n - 1)

SeqsUpTo(S, n) == UNION {[1..k -> S] : k \in 0..n}

\* bool(x) of an optional timestamp: None and 0 are falsy.
Truthy(ts) == ts # NoTimestamp /\ ts # 0

VARIABLES
  domains, max_retry, min_delay, patched, plan,
  work_queue, semaphore, results,
  completed, successes, failures, jsonld_count, favicon_count, fallback_count,
  pc, task, last_attempt, attempt_start, wake, steps,
  now, fetch_calls, final,
  pcRun, returned,
  op, arg, ret

inputs == <<domains, max_retry, min_delay, patched, plan>>
counters == <<completed, successes, failures, jsonld_count, favicon_count, fallback_count>>
locals == <<pc, task, last_attempt, attempt_start, wake, steps>>
ghosts == <<fetch_calls, final>>
\* A call of one of the pure methods (standardise_url, the extractors, the
\* chain of fetch_logo) outside a run: the method, its arguments, its result.
calls == <<op, arg, ret>>
crawler == <<inputs, work_queue, semaphore, results, counters, locals,
             now, ghosts, pcRun, returned>>
vars == <<inputs, work_queue, semaphore, results, counters, locals,
          now, ghosts, pcRun, returned, calls>>

\* ------------------------------------------------------------ __init__
\* Mutant: one worker and one slot more than the rule gives.
ConcurrentWorkers_OneMore(doms) == Max(1, Len(doms) \div DomainsPerWorker) + 1

\* self.concurrent_workers = max(1, len(domains) // 50)
ConcurrentWorkers(doms) == Max(1, Len(doms) \div DomainsPerWorker)

Workers == 1..ConcurrentWorkers(domains)

NoTask == [domain |-> "", retry |-> 0, last_attempt_timestamp |-> NoTimestamp,
           attempts |-> <<>>, occ |-> 0]

\* --------------------------------------------------------- asyncio.Queue
\* items: the deque; unfinished: _unfinished_tasks; joiner: the state of the
\* coroutine awaiting join() ("none", "waiting" on the _finished event, or
\* "woken": its wait has been resolved by _finished.set()).
EmptyQueue == [items |-> <<>>, unfinished |-> 0, joiner |-> "none"]

\* put_nowait: append, count the task as unfinished, clear the event.
QueuePut(q, item) ==
  [q EXCEPT !.items = Append(@, item), !.unfinished = @ + 1]

\* Mutant: the _finished event is set while one task is still unfinished.
QueueTaskDone_WakesEarly(q) ==
  [q EXCEPT !.unfinished = @ - 1,
            !.joiner = IF q.unfinished - 1 <= 1 /\ @ = "waiting" THEN "woken" ELSE @]

\* task_done: one task less; at zero the _finished event is set, which
\* resolves the wait of every coroutine inside join().
QueueTaskDone(q) ==
  [q EXCEPT !.unfinished = @ - 1,
            !.joiner = IF q.unfinished - 1 = 0 /\ @ = "waiting" THEN "woken" ELSE @]

\* join(): wait only if some task is unfinished.
QueueJoin(q) ==
  [q EXCEPT !.joiner = IF q.unfinished > 0 THEN "waiting" ELSE "woken"]

\* ------------------------------------------------------------ the inputs
DomainLists == SeqsUpTo(Names, MaxDomains)

\* Lists long enough for two workers: ok.com repeated, then a domain whose
\* fetches may fail, 2 * DomainsPerWorker domains in all.
PoolLength == 2 * DomainsPerWorker
PoolLists ==
  {[i \in 1..PoolLength |-> IF i < PoolLength THEN StableName ELSE n] : n \in {"a.com"}}
RetryChoices == 0..DefaultMaxRetry
\* min_delay in whole seconds (crawl_with_queue passes 1.0).
MinDelays == {0, 1}

\* ------------------------------------------------------------- fetch_logo
\* Mutant: no fallback favicon is built.
FallbackFavicon_Empty(domain) == ""

FallbackFavicon(domain) == "https://" \o domain \o "/favicon.ico"
JsonLdUrl(domain) == "https://" \o domain \o "/logo.png"
FaviconUrl(domain) == "https://" \o domain \o "/icon.png"

\* The dict of the two `except` branches (fetch_logo's and the worker's).
FailureResult(domain, msg) ==
  [domain |-> domain, logo |-> "", status |-> FAILURE_MSG, source |-> "none",
   error |-> msg]

\* What the request and the two extractors give for one page: the request
\* raises, or the page is parsed and each extractor yields a URL ("found"),
\* the empty str or None.
Pages == [transport : {"ok", "raises"},
          jsonld_logo : {None, "", "found"}, favicon_logo : {None, "", "found"}]

\* Mutant: the favicon tier is tried before the JSON-LD tier.
FetchLogo_FaviconFirst(domain, page) ==
  IF page.transport = "raises"
    THEN FailureResult(domain, "Cannot connect to host")
  ELSE IF page.favicon_logo = "found"
    THEN [domain |-> domain, logo |-> FaviconUrl(domain), status |-> FAVICON_FOUND,
          source |-> "favicon_logo", error |-> Absent]
  ELSE IF page.jsonld_logo = "found"
    THEN [domain |-> domain, logo |-> JsonLdUrl(domain), status |-> LOGO_FOUND,
          source |-> "jsonld_logo", error |-> Absent]
  ELSE [domain |-> domain, logo |-> FallbackFavicon(domain),
        status |-> FALLBACK_FAVICON_FOUND, source |-> "fallback_logo", error |-> Absent]

\* fetch_logo after its sleep: the try block and its except branch.
FetchLogo(domain, page) ==
  IF page.transport = "raises"
    THEN FailureResult(domain, "Cannot connect to host")
    ELSE
      LET jsonld_logo ==
            IF page.jsonld_logo = "found" THEN JsonLdUrl(domain) ELSE page.jsonld_logo
          favicon_logo ==
            IF page.favicon_logo = "found" THEN FaviconUrl(domain) ELSE page.favicon_logo
          fallback_logo == FallbackFavicon(domain)
          chosen ==
            IF jsonld_logo # None /\ jsonld_logo # ""
              THEN <<jsonld_logo, "jsonld_logo", LOGO_FOUND>>
            ELSE IF favicon_logo # None /\ favicon_logo # ""
              THEN <<favicon_logo, "favicon_logo", FAVICON_FOUND>>
            ELSE IF fallback_logo # None /\ fallback_logo # ""
              THEN <<fallback_logo, "fallback_logo", FALLBACK_FAVICON_FOUND>>
            ELSE <<None, "none", NOTHING_FOUND>>
      IN IF chosen[1] # None /\ chosen[1] # ""
           THEN [domain |-> domain, logo |-> chosen[1], status |-> chosen[3],
                 source |-> chosen[2], error |-> Absent]
           ELSE [domain |-> domain, logo |-> "", status |-> NOTHING_FOUND,
                 source |-> "none", error |-> NOTHING_FOUND]

\* str(e) of the exception the tests' raise_exception raises.
ExceptionMessage == "Network failure"

\* One call of fetch_logo ends by returning a dict or by raising.
Returns(r) == [kind |-> "return", result |-> r, msg |-> ""]
Raises(msg) == [kind |-> "raise", result |-> FailureResult("", msg), msg |-> msg]

\* The unmodified fetch_logo never lets an Exception out.
RealOutcomes(domain) == {Returns(FetchLogo(domain, page)) : page \in Pages}

\* The replacements the tests install for fetch_logo (fake_fetch, always_fail,
\* return_jsonld_logo, raise_exception): any status, with or without an
\* "error" key, or an exception.
PatchedOutcomes(domain) ==
  {Returns([domain |-> domain, logo |-> "https://" \o domain \o "/logo.png",
            status |-> FAVICON_FOUND, source |-> "favicon_logo", error |-> Absent])}
  \cup {Returns([domain |-> domain, logo |-> "", status |-> NOTHING_FOUND,
                 source |-> "none", error |-> e]) : e \in {"No logo found", Absent}}
  \cup {Returns(FailureResult(domain, "timeout")), Raises(ExceptionMessage)}

StablePage == [transport |-> "ok", jsonld_logo |-> "found", favicon_logo |-> None]

\* A replacement that answers by the number of the call, as fake_fetch does
\* with call_count: plan[k] is what the k-th call for the domain returns.
PlanKinds == {"success", "nothing", "failure"}
Plans == [1..DefaultMaxRetry -> PlanKinds]
NoPlan == <<>>

PlannedOutcome(domain, kind) ==
  IF kind = "success"
    THEN Returns([domain |-> domain, logo |-> "https://" \o domain \o "/logo.png",
                  status |-> FAVICON_FOUND, source |-> "favicon_logo", error |-> Absent])
  ELSE IF kind = "nothing"
    THEN Returns([domain |-> domain, logo |-> "", status |-> NOTHING_FOUND,
                  source |-> "none", error |-> "No logo found"])
  ELSE Returns(FailureResult(domain, "timeout"))

\* The ways the call number `call` of fetch_logo for task t can end.
FetchOutcomes(t, call) ==
  IF t.domain = StableName THEN {Returns(FetchLogo(t.domain, StablePage))}
  ELSE IF ~patched THEN RealOutcomes(t.domain)
  ELSE IF plan[t.occ] = NoPlan THEN PatchedOutcomes(t.domain)
  ELSE {PlannedOutcome(t.domain, plan[t.occ][call])}


\* ----------------------------------------------------------------- worker
\* Mutant: a delay that grows linearly.
BackoffDelay_Linear(retries) == 2 * retries

\* delay = 2**retries
BackoffDelay(retries) == Pow2(retries)

\* Mutant: fetch_logo sleeps half of min_delay, rounded down.
PacingDelay_Halved == min_delay \div 2

\* await asyncio.sleep(self.min_delay), the first statement of fetch_logo
PacingDelay == min_delay

\* sleep_duration = max(0, delay - (now - last_attempt))
SleepDuration(delay, t, last) == Max(0, delay - (t - last))

\* Mutant: the retry test admits retries == self.max_retry.
ShouldRetry_Inclusive(status, retries) == status = NOTHING_FOUND /\ retries <= max_retry

\* elif status == NOTHING_FOUND and retries < self.max_retry
ShouldRetry(status, retries) == status = NOTHING_FOUND /\ retries < max_retry

\* Mutant: the first task of a domain counts its retries from 0.
InitialTask_RetryZero(i) ==
  [domain |-> domains[i], retry |-> 0, last_attempt_timestamp |-> NoTimestamp,
   attempts |-> <<>>, occ |-> i]

\* populate_work_queue: one put per element of self.domains, each with a
\* fresh attempts list.
InitialTask(i) ==
  [domain |-> domains[i], retry |-> 1, last_attempt_timestamp |-> NoTimestamp,
   attempts |-> <<>>, occ |-> i]

\* Mutant: a domain name seen before is not enqueued again.
PopulateWorkQueue_Dedup(q) ==
  LET firsts == SelectSeq([i \in 1..Len(domains) |-> InitialTask(i)],
                          LAMBDA t : \A j \in 1..(t.occ - 1) : domains[j] # t.domain)
  IN [q EXCEPT !.items = @ \o firsts, !.unfinished = @ + Len(firsts)]

\* Mutant: every element of self.domains is put twice, with the same
\* attempts list.
PopulateWorkQueue_Twice(q) ==
  LET tasks == [i \in 1..Len(domains) |-> InitialTask(i)]
  IN [q EXCEPT !.items = @ \o tasks \o tasks, !.unfinished = @ + 2 * Len(domains)]

\* The queue after the loop of populate_work_queue: a put for every element,
\* in the order of the list.
PopulateWorkQueue(q) ==
  [q EXCEPT !.items = @ \o [i \in 1..Len(domains) |-> InitialTask(i)],
            !.unfinished = @ + Len(domains)]

\* Inside `async with self.semaphore`.
HoldsSlot(w) == pc[w] \in {"pacing", "fetching"}

\* Between work_queue.get() and task_done().
HoldsTask(w) == pc[w] \in {"backoff", "acquire", "pacing", "fetching"}

\* Mutant: fetch_logo is called without entering `async with self.semaphore`.
EnterFetch_NoAcquire(w, t, log) ==
  /\ UNCHANGED semaphore
  /\ fetch_calls' = [fetch_calls EXCEPT ![t.occ] = @ + 1]
  /\ pc' = [pc EXCEPT ![w] = IF patched THEN "fetching" ELSE "pacing"]
  /\ steps' = [steps EXCEPT ![w] = log \o <<"acquire", IF patched THEN "fetch" ELSE "pacing">>]
  /\ wake' = [wake EXCEPT ![w] = IF patched THEN @ ELSE now + PacingDelay]

\* The slot is taken and fetch_logo is called: the unmodified one starts with
\* asyncio.sleep(self.min_delay), a replacement is awaited as it is.
EnterFetch(w, t, log) ==
  /\ semaphore' = semaphore - 1
  /\ fetch_calls' = [fetch_calls EXCEPT ![t.occ] = @ + 1]
  /\ IF patched
       THEN /\ pc' = [pc EXCEPT ![w] = "fetching"]
            /\ steps' = [steps EXCEPT ![w] = log \o <<"acquire", "fetch">>]
            /\ UNCHANGED wake
       ELSE /\ pc' = [pc EXCEPT ![w] = "pacing"]
            /\ steps' = [steps EXCEPT ![w] = log \o <<"acquire", "pacing">>]
            /\ wake' = [wake EXCEPT ![w] = now + PacingDelay]

\* task["last_attempt_timestamp"] = time.time(); attempt_start = time.time();
\* async with self.semaphore
BeginAttempt(w, t, log) ==
  /\ task' = [task EXCEPT ![w] = [t EXCEPT !.last_attempt_timestamp = now]]
  /\ attempt_start' = [attempt_start EXCEPT ![w] = now]
  /\ IF semaphore > 0
       THEN EnterFetch(w, t, log \o <<"stamp">>)
       ELSE /\ pc' = [pc EXCEPT ![w] = "acquire"]
            /\ steps' = [steps EXCEPT ![w] = log \o <<"stamp">>]
            /\ UNCHANGED <<semaphore, fetch_calls, wake>>

\* task = await self.work_queue.get() and the backoff check.
WorkerGet(w) ==
  /\ pc[w] = "get"
  /\ work_queue.items # <<>>
  /\ LET t == Head(work_queue.items)
         last == t.last_attempt_timestamp
         sleep_duration == SleepDuration(BackoffDelay(t.retry), now, last)
     IN /\ work_queue' = [work_queue EXCEPT !.items = Tail(@)]
        /\ last_attempt' = [last_attempt EXCEPT ![w] = last]
        /\ IF Truthy(last) /\ sleep_duration > 0
             THEN /\ pc' = [pc EXCEPT ![w] = "backoff"]
                  /\ wake' = [wake EXCEPT ![w] = now + sleep_duration]
                  /\ task' = [task EXCEPT ![w] = t]
                  /\ steps' = [steps EXCEPT ![w] = <<"backoff_check", "backoff_sleep">>]
                  /\ UNCHANGED <<attempt_start, semaphore, fetch_calls>>
             ELSE BeginAttempt(w, t, <<"backoff_check">>)
  /\ UNCHANGED <<calls, inputs, results, counters, now, final, pcRun, returned>>

\* The backoff sleep is over, or the semaphore has a free slot.
WorkerWake(w) ==
  /\ pc[w] \in {"backoff", "acquire"}
  /\ IF pc[w] = "backoff" THEN now >= wake[w] ELSE semaphore > 0
  /\ IF pc[w] = "backoff"
       THEN BeginAttempt(w, task[w], steps[w])
       ELSE /\ EnterFetch(w, task[w], steps[w])
            /\ UNCHANGED <<task, attempt_start>>
  /\ UNCHANGED <<calls, inputs, work_queue, results, counters, last_attempt, now,
                 final, pcRun, returned>>

\* asyncio.sleep(self.min_delay) is over: the request is sent.
WorkerPaced(w) ==
  /\ pc[w] = "pacing"
  /\ now >= wake[w]
  /\ pc' = [pc EXCEPT ![w] = "fetching"]
  /\ steps' = [steps EXCEPT ![w] = @ \o <<"fetch">>]
  /\ UNCHANGED <<calls, inputs, work_queue, semaphore, results, counters, task,
                 last_attempt, attempt_start, wake, now, ghosts, pcRun, returned>>

\* Mutant: the except branch reports the exception as NOTHING_FOUND.
WorkerResult_NothingFound(domain, out) ==
  IF out.kind = "raise"
    THEN [FailureResult(domain, out.msg) EXCEPT !.status = NOTHING_FOUND]
    ELSE out.result

\* try: result = await self.fetch_logo(..) / except Exception as e: result = {..}
WorkerResult(domain, out) ==
  IF out.kind = "raise" THEN FailureResult(domain, out.msg) ELSE out.result

\* Mutant: a failed attempt is always recorded with the default message.
AttemptEntry_DefaultMessage(result, attempt_duration) ==
  IF result.status \in SuccessStatuses
    THEN [duration |-> attempt_duration, error |-> None]
    ELSE [duration |-> attempt_duration, error |-> "Unknown error"]

\* The tuple appended to task["attempts"]: the error is None for the three
\* success statuses, else result.get("error", "Unknown error").
AttemptEntry(result, attempt_duration) ==
  IF result.status \in SuccessStatuses
    THEN [duration |-> attempt_duration, error |-> None]
    ELSE [duration |-> attempt_duration,
          error |-> IF result.error = Absent THEN "Unknown error" ELSE result.error]

\* Mutant: the retried task starts a new attempts list.
RetryTask_FreshAttempts(t) ==
  [domain |-> t.domain, retry |-> t.retry + 1, last_attempt_timestamp |-> now,
   attempts |-> <<>>, occ |-> t.occ]

\* The task put back by the retry branch.
RetryTask(t) ==
  [domain |-> t.domain, retry |-> t.retry + 1, last_attempt_timestamp |-> now,
   attempts |-> t.attempts, occ |-> t.occ]

\* Mutant: task_done() is called before the retried task is put back.
RetryQueue_DoneBeforePut(q, t) == QueuePut(QueueTaskDone(q), RetryTask(t))

\* Mutant: the retry branch leaves the loop body before task_done().
RetryQueue_NoTaskDone(q, t) == QueuePut(q, RetryTask(t))

\* Mutant: the retry puts the new task on the queue twice.
RetryQueue_PutTwice(q, t) ==
  QueueTaskDone(QueuePut(QueuePut(q, RetryTask(t)), RetryTask(t)))

\* The queue after the retry branch: the put of the new task, then the
\* task_done() that ends the loop body.
RetryQueue(q, t) == QueueTaskDone(QueuePut(q, RetryTask(t)))

\* Mutant: the three source-kind tests are not exclusive.
SourceCount_Always(status, kind) == 1

\* if status == LOGO_FOUND: .. elif status == FAVICON_FOUND: .. elif ..: the
\* amount added to the counter of `kind` by a success with `status`.
SourceCount(status, kind) == IF status = kind THEN 1 ELSE 0

\* The fetch has returned or raised (`out`): the slot is released, the
\* attempt is recorded, the result is routed and the dequeue is acknowledged.
Resume(w, out) ==
  /\ LET result == WorkerResult(task[w].domain, out)
         entry == AttemptEntry(result, now - attempt_start[w])
         t == [task[w] EXCEPT !.attempts = Append(@, entry)]
         res == [attempts |-> t.attempts] @@ result
         status == res.status
         log == steps[w] \o (IF out.kind = "raise" THEN <<"except">> ELSE <<>>)
                         \o <<"release", "record">>
     IN   /\ semaphore' = semaphore + 1
          /\ IF status \in SuccessStatuses
               THEN /\ results' = Append(results, res)
                    /\ completed' = completed + 1
                    /\ successes' = successes + 1
                    /\ jsonld_count' = jsonld_count + SourceCount(status, LOGO_FOUND)
                    /\ favicon_count' = favicon_count + SourceCount(status, FAVICON_FOUND)
                    /\ fallback_count' =
                         fallback_count + SourceCount(status, FALLBACK_FAVICON_FOUND)
                    /\ work_queue' = QueueTaskDone(work_queue)
                    /\ final' = [final EXCEPT ![t.occ] = Append(@, res)]
                    /\ steps' = [steps EXCEPT ![w] = log \o <<"success", "task_done">>]
                    /\ UNCHANGED failures
               ELSE IF ShouldRetry(status, t.retry)
                 THEN /\ work_queue' = RetryQueue(work_queue, t)
                      /\ steps' = [steps EXCEPT ![w] = log \o <<"retry", "task_done">>]
                      /\ UNCHANGED <<results, counters, final>>
                 ELSE /\ results' = Append(results, res)
                      /\ completed' = completed + 1
                      /\ failures' = failures + 1
                      /\ work_queue' = QueueTaskDone(work_queue)
                      /\ final' = [final EXCEPT ![t.occ] = Append(@, res)]
                      /\ steps' = [steps EXCEPT ![w] = log \o <<"give_up", "task_done">>]
                      /\ UNCHANGED <<successes, jsonld_count, favicon_count, fallback_count>>
  \* back at `await self.work_queue.get()`: the locals of the iteration are dead
  /\ pc' = [pc EXCEPT ![w] = "get"]
  /\ task' = [task EXCEPT ![w] = NoTask]
  /\ last_attempt' = [last_attempt EXCEPT ![w] = NoTimestamp]
  /\ attempt_start' = [attempt_start EXCEPT ![w] = 0]
  /\ wake' = [wake EXCEPT ![w] = 0]
  /\ UNCHANGED <<calls, inputs, now, fetch_calls, pcRun, returned>>

\* The awaited fetch_logo is over, in one of the ways it can end.
WorkerFetched(w) ==
  /\ pc[w] = "fetching"
  /\ \E out \in FetchOutcomes(task[w], fetch_calls[task[w].occ]) : Resume(w, out)

\* -------------------------------------------------------------------- time
\* Some coroutine is inside an asyncio.sleep that has not run out.
Sleeping == \E w \in Workers : pc[w] \in {"backoff", "pacing"} /\ wake[w] > now

\* One second passes.
Tick ==
  /\ Sleeping
  /\ now' = now + 1
  /\ UNCHANGED <<calls, inputs, work_queue, semaphore, results, counters, locals,
                 ghosts, pcRun, returned>>

\* --------------------------------------------------------------------- run
\* populate_work_queue, the create_task of every worker, then join(). With
\* tasks in the queue join() suspends run(), and every worker runs up to its
\* first `await self.work_queue.get()` before run() is resumed; with an empty
\* queue join() returns without suspending and no worker has run a step.
RunStart ==
  /\ pcRun = "init"
  /\ work_queue' = QueueJoin(PopulateWorkQueue(work_queue))
  /\ pc' = [w \in Workers |-> IF domains = <<>> THEN "new" ELSE "get"]
  /\ pcRun' = "join"
  /\ UNCHANGED <<calls, inputs, semaphore, results, counters, task, last_attempt,
                 attempt_start, wake, steps, now, ghosts, returned>>

\* join() has returned: every worker task is cancelled at the await it is
\* suspended in; leaving `async with self.semaphore` releases its slot.
RunCancel ==
  /\ pcRun = "join"
  /\ work_queue.joiner = "woken"
  /\ pc' = [w \in Workers |-> "cancelled"]
  /\ semaphore' = semaphore + Cardinality({w \in Workers : HoldsSlot(w)})
  /\ pcRun' = "gather"
  /\ UNCHANGED <<calls, inputs, work_queue, results, counters, task, last_attempt,
                 attempt_start, wake, steps, now, ghosts, returned>>

\* gather() is over: return self.results
RunReturn ==
  /\ pcRun = "gather"
  /\ returned' = results
  /\ pcRun' = "done"
  /\ UNCHANGED <<calls, inputs, work_queue, semaphore, results, counters, locals,
                 now, ghosts>>

\* ----------------------------------------------------------- specification
\* The crawler as __init__ leaves it, for every input within the bounds.
InitCrawler(lists, retries, delays, plans, patches) ==
  /\ domains \in lists
  /\ plan \in [1..Len(domains) -> plans]
  /\ max_retry \in retries
  /\ min_delay \in delays
  /\ patched \in patches
  /\ work_queue = EmptyQueue
  /\ semaphore = ConcurrentWorkers(domains)
  /\ results = <<>>
  /\ completed = 0 /\ successes = 0 /\ failures = 0
  /\ jsonld_count = 0 /\ favicon_count = 0 /\ fallback_count = 0
  /\ pc = [w \in Workers |-> "new"]
  /\ task = [w \in Workers |-> NoTask]
  /\ last_attempt = [w \in Workers |-> NoTimestamp]
  /\ attempt_start = [w \in Workers |-> 0]
  /\ wake = [w \in Workers |-> 0]
  /\ steps = [w \in Workers |-> <<>>]
  /\ now = StartTime
  /\ fetch_calls = [i \in 1..Len(domains) |-> 0]
  /\ final = [i \in 1..Len(domains) |-> <<>>]
  /\ pcRun = "init"
  /\ returned = <<>>

\* No pure method is called on its own.
NoCall == op = "none" /\ arg = <<>> /\ ret = <<>>

\* A crawler about to run, fetch_logo either the unmodified one or replaced.
InitWith(lists, retries, delays, plans) ==
  InitCrawler(lists, retries, delays, plans, BOOLEAN) /\ NoCall

Next ==
  \/ RunStart
  \/ \E w \in Workers : WorkerGet(w)
  \/ \E w \in Workers : WorkerWake(w)
  \/ \E w \in Workers : WorkerPaced(w)
  \/ \E w \in Workers : WorkerFetched(w)
  \/ Tick
  \/ RunCancel
  \/ RunReturn

Init == InitWith(DomainLists, RetryChoices, MinDelays, {NoPlan})

Spec == Init /\ [][Next]_vars

\* The same crawler on the long lists, which get two workers and two slots.
InitPool == InitWith(PoolLists, {2}, {0}, {NoPlan})

SpecPool == InitPool /\ [][Next]_vars

\* The crawler of the worker tests: one domain, and a fetch_logo replaced by
\* one that answers by the number of the call.
PlannedLists == {<<n>> : n \in Names}

InitPlanned == InitWith(PlannedLists, 1..DefaultMaxRetry, {0}, Plans)

SpecPlanned == InitPlanned /\ [][Next]_vars

\* The crawler constructed with any max_retry, also 0 and a negative one (the
\* constructor stores the argument as it is).
AnyRetryChoices == -1..DefaultMaxRetry

InitAnyRetry == InitWith(DomainLists, AnyRetryChoices, {0}, {NoPlan})

SpecAnyRetry == InitAnyRetry /\ [][Next]_vars

\* The event loop resumes every coroutine that is ready, and a sleep ends
\* when its time has passed.
WorkerIds == {1, 2}

Fairness ==
  /\ WF_vars(RunStart) /\ WF_vars(RunCancel) /\ WF_vars(RunReturn) /\ WF_vars(Tick)
  /\ \A w \in WorkerIds :
       /\ WF_vars(w \in Workers /\ WorkerGet(w))
       /\ WF_vars(w \in Workers /\ WorkerWake(w))
       /\ WF_vars(w \in Workers /\ WorkerPaced(w))
       /\ WF_vars(w \in Workers /\ WorkerFetched(w))

FairSpec == Spec /\ Fairness

\* ================================================================== claims
Occurrences == 1..Len(domains)
CountIn(seq, P(_)) == Cardinality({i \in 1..Len(seq) : P(seq[i])})
IsFailureKind(status) == status \notin SuccessStatuses

\* C1: when run() has returned, the returned list has one record per element
\* of the input list: as many records as domains, for every name as many
\* records as the name occurs in the input, and for every occurrence exactly
\* one record.
C1_OneRecordPerDomain ==
  pcRun = "done" =>
    /\ Len(returned) = Len(domains)
    /\ \A i \in Occurrences : Len(final[i]) = 1 /\ final[i][1].domain = domains[i]
    /\ \A n \in Names \cup {StableName} :
         CountIn(returned, LAMBDA r : r.domain = n) = CountIn(domains, LAMBDA d : d = n)

\* C1 witness: a finished run on a list that names the same domain twice, one
\* occurrence finalized at once and the other after a retry.
C1_Witness ==
  /\ pcRun = "done"
  /\ Len(domains) = 2 /\ domains[1] = domains[2]
  /\ Len(returned) = 2
  /\ \E i, j \in 1..2 : Len(returned[i].attempts) = 1 /\ Len(returned[j].attempts) = 2

\* C2: with every coroutine resumed once it is ready, run() returns, whatever
\* the fetches do.
C2_RunTerminates == <>(pcRun = "done")

\* C2 witness: a finished run in which every attempt of every domain failed
\* and a domain used all three attempts.
C2_Witness ==
  /\ pcRun = "done"
  /\ Len(returned) = 2
  /\ \A i \in 1..2 : IsFailureKind(returned[i].status)
  /\ \E i \in 1..2 : Len(returned[i].attempts) = 3

\* The number of the first call the plan answers with a success, 0 if none.
FirstSuccess(p) ==
  IF \E k \in DOMAIN p : p[k] = "success"
    THEN CHOOSE k \in DOMAIN p : p[k] = "success" /\ \A j \in 1..(k - 1) : p[j] # "success"
    ELSE 0

\* C3: a domain whose first N-1 attempts report nothing-found or a fetch
\* failure and whose N-th attempt succeeds, N <= max_retry, is fetched exactly
\* N times and ends with a success record whose attempts history has length N.
C3_RetryUntilSuccess ==
  (pcRun = "done" /\ patched) =>
    \A i \in Occurrences :
      LET N == FirstSuccess(plan[i])
      IN (N >= 1 /\ N <= max_retry) =>
           /\ fetch_calls[i] = N
           /\ Len(final[i]) = 1
           /\ final[i][1].status \in SuccessStatuses
           /\ Len(final[i][1].attempts) = N

\* C4: a domain none of whose attempts succeeds ends with a failure record
\* whose attempts history has length exactly max_retry.
C4_ExhaustionLength ==
  (pcRun = "done" /\ patched) =>
    \A i \in Occurrences :
      (\A k \in DOMAIN plan[i] : plan[i][k] # "success") =>
        /\ Len(final[i]) = 1
        /\ IsFailureKind(final[i][1].status)
        /\ Len(final[i][1].attempts) = max_retry

\* C5: an attempt that ends in FAILURE or NOTHING_FOUND is finalized (as a
\* failure carrying the error of the attempt) only when the task's retry
\* count has reached max_retry; otherwise the task is put back with retry + 1,
\* a fresh timestamp and the attempts history.
C5_FailedAttemptRouting ==
  [][\A w \in Workers :
       (pc[w] = "fetching" /\ pc'[w] = "get") =>
         LET t == task[w]
             appended == Len(results') = Len(results) + 1
             rec == results'[Len(results')]
             queued == work_queue'.items
             back == queued[Len(queued)]
         IN /\ (appended /\ IsFailureKind(rec.status)) =>
                 /\ t.retry >= max_retry
                 /\ rec.attempts[Len(rec.attempts)].error # None
            /\ ~appended =>
                 /\ Len(queued) = Len(work_queue.items) + 1
                 /\ back.domain = t.domain /\ back.occ = t.occ
                 /\ back.retry = t.retry + 1
                 /\ back.last_attempt_timestamp = now
                 /\ SubSeq(back.attempts, 1, Len(t.attempts)) = t.attempts
    ]_vars

\* label a comes before label b in the steps of one loop iteration
Precedes(log, a, b) ==
  \E i, j \in 1..Len(log) : i < j /\ log[i] = a /\ log[j] = b
Logged(log, a) == \E i \in 1..Len(log) : log[i] = a

\* C6: an exception raised by fetch_logo is caught in the worker and becomes a
\* FAILURE result whose error is the exception's message; the worker releases
\* the slot, records the attempt, appends the FAILURE record (failures + 1,
\* successes unchanged), acknowledges the task and is back at the dequeue; and
\* when the run is over every domain has its record.
C6_ExceptionBecomesFailure ==
  /\ [][\A w \in Workers :
          (pc[w] = "fetching" /\ pc'[w] # "fetching" /\ Logged(steps'[w], "except")) =>
            LET t == task[w]
                rec == results'[Len(results')]
                entry == [duration |-> now - attempt_start[w], error |-> ExceptionMessage]
            IN /\ pc'[w] = "get"
               /\ semaphore' = semaphore + 1
               /\ Len(results') = Len(results) + 1
               /\ rec.domain = t.domain
               /\ rec.status = FAILURE_MSG
               /\ rec.error = ExceptionMessage
               /\ rec.attempts = Append(t.attempts, entry)
               /\ failures' = failures + 1
               /\ successes' = successes
               /\ completed' = completed + 1
               /\ work_queue'.unfinished = work_queue.unfinished - 1
               /\ work_queue'.items = work_queue.items
       ]_vars
  /\ [](pcRun = "done" => \A i \in Occurrences : Len(final[i]) = 1)

\* C6 witness: a finished run of two domains, one whose fetch raised and has a
\* FAILURE record with the exception's message, the other with a success
\* record.
C6_Witness ==
  /\ pcRun = "done"
  /\ Len(returned) = 2
  /\ \E i, j \in 1..2 :
       /\ returned[i].status = FAILURE_MSG /\ returned[i].error = ExceptionMessage
       /\ returned[j].status \in SuccessStatuses
  /\ failures = 1 /\ successes = 1

\* The workers inside `async with self.semaphore`.
InFlight == Cardinality({w \in Workers : HoldsSlot(w)})

\* C7: at most W = max(1, len(domains) // 50) fetches are in flight at once:
\* the semaphore never goes below zero and its value plus the number of
\* workers inside the guarded section is W.
C7_InFlightBounded ==
  LET W == IF Len(domains) \div DomainsPerWorker >= 1
             THEN Len(domains) \div DomainsPerWorker ELSE 1
  IN /\ InFlight <= W
     /\ semaphore >= 0
     /\ semaphore + InFlight = W

\* C7 witness: two fetches in flight while tasks are still queued.
C7_Witness == InFlight = 2 /\ Len(work_queue.items) >= 2

\* C8: the unfinished count of the queue is at least the tasks queued plus the
\* tasks held by workers, and join() is not woken, nor the workers cancelled,
\* while a domain is queued, held or without its record.
C8_JoinRaceFree ==
  /\ work_queue.unfinished >=
       Len(work_queue.items) + Cardinality({w \in Workers : HoldsTask(w)})
  /\ (work_queue.joiner = "woken" \/ pcRun \in {"gather", "done"}) =>
       /\ work_queue.items = <<>>
       /\ \A w \in Workers : ~HoldsTask(w)
       /\ \A i \in Occurrences : Len(final[i]) = 1

\* C8 witness: a retried task is back in the queue while the other worker
\* still holds a task, with join() waiting.
C8_Witness ==
  /\ work_queue.joiner = "waiting"
  /\ \E k \in 1..Len(work_queue.items) : work_queue.items[k].retry = 2
  /\ \E w \in Workers : HoldsTask(w)
  /\ Cardinality(Workers) = 2

\* C9: an attempt of a task that has a last_attempt_timestamp begins at
\* least 2^retry seconds after that timestamp (4 s for the 2nd attempt, 8 s
\* for the 3rd), the backoff sleep ends exactly then, and a task without a
\* timestamp (a first attempt) is never put to sleep.
C9_Backoff ==
  \A w \in Workers :
    /\ (pc[w] \in {"acquire", "pacing", "fetching"} /\ last_attempt[w] # NoTimestamp) =>
         attempt_start[w] - last_attempt[w] >= 2 ^ task[w].retry
    /\ pc[w] = "backoff" =>
         /\ last_attempt[w] # NoTimestamp
         /\ wake[w] = last_attempt[w] + 2 ^ task[w].retry
    /\ (HoldsTask(w) /\ last_attempt[w] = NoTimestamp) =>
         /\ task[w].retry = 1
         /\ ~Logged(steps[w], "backoff_sleep")

\* C9 witness: a third attempt in flight, begun 8 s or more after the stamp
\* of the retry.
C9_Witness ==
  \E w \in Workers :
    /\ pc[w] = "fetching"
    /\ task[w].retry = 3
    /\ Logged(steps[w], "backoff_sleep")
    /\ attempt_start[w] - last_attempt[w] >= 8

InsideSemaphore(w) ==
  /\ pc[w] # "cancelled"
  /\ Logged(steps[w], "acquire")
  /\ ~Logged(steps[w], "release")

C13_RunCounters ==
  /\ [][/\ completed' >= completed /\ successes' >= successes /\ failures' >= failures
        /\ jsonld_count' >= jsonld_count /\ favicon_count' >= favicon_count
        /\ fallback_count' >= fallback_count
        /\ IF Len(results') = Len(results) + 1
             THEN LET rec == results'[Len(results')]
                      ok == rec.status \in SuccessStatuses
                  IN /\ completed' = completed + 1
                     /\ successes' = successes + (IF ok THEN 1 ELSE 0)
                     /\ failures' = failures + (IF ok THEN 0 ELSE 1)
                     /\ jsonld_count' =
                          jsonld_count + (IF rec.status = LOGO_FOUND THEN 1 ELSE 0)
                     /\ favicon_count' =
                          favicon_count + (IF rec.status = FAVICON_FOUND THEN 1 ELSE 0)
                     /\ fallback_count' =
                          fallback_count + (IF rec.status = FALLBACK_FAVICON_FOUND THEN 1 ELSE 0)
             ELSE /\ results' = results
                  /\ counters' = counters
       ]_vars
  /\ [](/\ completed = successes + failures
        /\ completed = Len(results)
        /\ jsonld_count + favicon_count + fallback_count = successes
        /\ pcRun = "done" => completed = Len(domains))

\* C13 witness: a finished run of two domains with one success, found by the
\* favicon tier after a retry, and one failure.
C13_Witness ==
  /\ pcRun = "done"
  /\ completed = 2 /\ successes = 1 /\ failures = 1
  /\ favicon_count = 1 /\ jsonld_count = 0 /\ fallback_count = 0
  /\ \E i \in 1..2 :
       returned[i].status = FAVICON_FOUND /\ Len(returned[i].attempts) >= 2

\* =================================================== the pure methods
\* A Python str is the sequence of its characters, each a one-character
\* string: startswith, `in`, find, slices and + are then what they are in
\* Python. A value that is not a str (None, an exception) is a sequence of
\* one longer string, which no str equals.
NoUrl == <<"None">>
ValueError == <<"ValueError">>

UpperCase == <<"A", "B", "C", "D", "E", "F", "G", "H", "I", "J", "K", "L", "M",
               "N", "O", "P", "Q", "R", "S", "T", "U", "V", "W", "X", "Y", "Z">>
LowerCase == <<"a", "b", "c", "d", "e", "f", "g", "h", "i", "j", "k", "l", "m",
               "n", "o", "p", "q", "r", "s", "t", "u", "v", "w", "x", "y", "z">>
AsciiLetters == {UpperCase[i] : i \in 1..Len(UpperCase)} \cup {LowerCase[i] : i \in 1..Len(LowerCase)}
\* urllib.parse.scheme_chars
SchemeChars ==
  AsciiLetters \cup {"0", "1", "2", "3", "4", "5", "6", "7", "8", "9"} \cup {"+", "-", "."}

\* str.lower()
Lower(s) ==
  LET LowerChar(c) ==
        IF \E i \in 1..Len(UpperCase) : UpperCase[i] = c
          THEN LowerCase[CHOOSE i \in 1..Len(UpperCase) : UpperCase[i] = c]
          ELSE c
  IN [i \in 1..Len(s) |-> LowerChar(s[i])]

\* s.startswith(p), p in s
StartsWith(s, p) == Len(s) >= Len(p) /\ SubSeq(s, 1, Len(p)) = p
Contains(s, p) == \E i \in 1..(Len(s) - Len(p) + 1) : SubSeq(s, i, i + Len(p) - 1) = p

\* s.find(c, start) and s.rfind(c), positions counted from 1, 0 when absent
Find(s, c, start) ==
  IF \E i \in start..Len(s) : s[i] = c
    THEN CHOOSE i \in start..Len(s) : s[i] = c /\ \A j \in start..(i - 1) : s[j] # c
    ELSE 0
RFind(s, c) ==
  IF \E i \in 1..Len(s) : s[i] = c
    THEN CHOOSE i \in 1..Len(s) : s[i] = c /\ \A j \in (i + 1)..Len(s) : s[j] # c
    ELSE 0

\* s[i:] and s[:i] with positions counted from 1: from i on, before i
From(s, i) == SubSeq(s, i, Len(s))
Before(s, i) == SubSeq(s, 1, i - 1)

\* ------------------------------------------ urllib.parse, as called at 109-111
\* url.lstrip(_WHATWG_C0_CONTROL_OR_SPACE), then the removal of tab, CR, LF
Lstrip(s) ==
  LET ControlOrSpace == {" ", "\t", "\n", "\r"}
  IN IF \A i \in 1..Len(s) : s[i] \in ControlOrSpace
       THEN <<>>
       ELSE From(s, CHOOSE i \in 1..Len(s) :
                      s[i] \notin ControlOrSpace /\ \A j \in 1..(i - 1) : s[j] \in ControlOrSpace)
RemoveUnsafe(s) == SelectSeq(s, LAMBDA c : c \notin {"\t", "\r", "\n"})

\* urllib.parse.uses_params and uses_netloc
UsesParams ==
  {<<>>,
   <<"f", "t", "p">>,
   <<"h", "d", "l">>,
   <<"p", "r", "o", "s", "p", "e", "r", "o">>,
   <<"h", "t", "t", "p">>,
   <<"i", "m", "a", "p">>,
   <<"h", "t", "t", "p", "s">>,
   <<"s", "h", "t", "t", "p">>,
   <<"r", "t", "s", "p">>,
   <<"r", "t", "s", "p", "s">>,
   <<"r", "t", "s", "p", "u">>,
   <<"s", "i", "p">>,
   <<"s", "i", "p", "s">>,
   <<"m", "m", "s">>,
   <<"s", "f", "t", "p">>,
   <<"t", "e", "l">>}
UsesNetloc ==
  {<<>>,
   <<"f", "t", "p">>,
   <<"h", "t", "t", "p">>,
   <<"g", "o", "p", "h", "e", "r">>,
   <<"n", "n", "t", "p">>,
   <<"t", "e", "l", "n", "e", "t">>,
   <<"i", "m", "a", "p">>,
   <<"w", "a", "i", "s">>,
   <<"f", "i", "l", "e">>,
   <<"m", "m", "s">>,
   <<"h", "t", "t", "p", "s">>,
   <<"s", "h", "t", "t", "p">>,
   <<"s", "n", "e", "w", "s">>,
   <<"p", "r", "o", "s", "p", "e", "r", "o">>,
   <<"r", "t", "s", "p">>,
   <<"r", "t", "s", "p", "s">>,
   <<"r", "t", "s", "p", "u">>,
   <<"r", "s", "y", "n", "c">>,
   <<"s", "v", "n">>,
   <<"s", "v", "n", "+", "s", "s", "h">>,
   <<"s", "f", "t", "p">>,
   <<"n", "f", "s">>,
   <<"g", "i", "t">>,
   <<"g", "i", "t", "+", "s", "s", "h">>,
   <<"w", "s">>,
   <<"w", "s", "s">>}

\* The ValueError paths of urlsplit: one bracket without the other, or a
\* bracketed host, netloc.partition('[')[2].partition(']')[0], that is no
\* IPv6 address; of the hosts used here ipaddress accepts ::1 and 1::1.
NetlocRaises(netloc) ==
  LET open == Find(netloc, "[", 1) > 0
      close == Find(netloc, "]", 1) > 0
      rest == From(netloc, Find(netloc, "[", 1) + 1)
      KnownIPv6 == {<<":", ":", "1">>, <<"1", ":", ":", "1">>}
      bracketed_host == IF Find(rest, "]", 1) = 0 THEN rest ELSE Before(rest, Find(rest, "]", 1))
  IN \/ open /\ ~close
     \/ close /\ ~open
     \/ open /\ close /\ bracketed_host \notin KnownIPv6

\* urlsplit, its end: what follows the first '?' is the query
SplitQuery(raises, scheme, netloc, url, fragment) ==
  [raises |-> raises, scheme |-> scheme, netloc |-> netloc,
   path |-> IF Find(url, "?", 1) > 0 THEN Before(url, Find(url, "?", 1)) ELSE url,
   query |-> IF Find(url, "?", 1) > 0 THEN From(url, Find(url, "?", 1) + 1) ELSE <<>>,
   fragment |-> fragment]

\* urlsplit: what follows the first '#' is the fragment
SplitFragment(raises, scheme, netloc, url) ==
  IF Find(url, "#", 1) > 0
    THEN SplitQuery(raises, scheme, netloc,
                    Before(url, Find(url, "#", 1)), From(url, Find(url, "#", 1) + 1))
    ELSE SplitQuery(raises, scheme, netloc, url, <<>>)

\* urlsplit: a url that begins with // has a netloc, which ends before the
\* first of '/', '?', '#' (_splitnetloc)
SplitNetloc(scheme, url) ==
  LET delims == {k \in 3..Len(url) : url[k] \in {"/", "?", "#"}}
      delim == IF delims = {} THEN Len(url) + 1
               ELSE CHOOSE k \in delims : \A j \in delims : k <= j
  IN IF StartsWith(url, <<"/", "/">>)
       THEN SplitFragment(NetlocRaises(SubSeq(url, 3, delim - 1)), scheme,
                          SubSeq(url, 3, delim - 1), From(url, delim))
       ELSE SplitFragment(FALSE, scheme, <<>>, url)

\* urlsplit: the text before the first ':' is a scheme if it begins with a
\* letter and holds scheme characters only
SplitScheme(url) ==
  LET i == Find(url, ":", 1)
  IN IF /\ i > 1
        /\ url[1] \in AsciiLetters
        /\ \A k \in 1..(i - 1) : url[k] \in SchemeChars
       THEN SplitNetloc(Lower(Before(url, i)), From(url, i + 1))
       ELSE SplitNetloc(<<>>, url)

\* urlsplit(url): scheme, netloc, path, query, fragment
UrlSplit(url) == SplitScheme(RemoveUnsafe(Lstrip(url)))

\* urlparse: the params are split off the path of a scheme that has params,
\* at the ';' _splitparams finds
SplitParams(r) ==
  LET at == IF Contains(r.path, <<"/">>) THEN Find(r.path, ";", RFind(r.path, "/"))
            ELSE Find(r.path, ";", 1)
      i == IF r.scheme \in UsesParams /\ Contains(r.path, <<";">>) THEN at ELSE 0
  IN [raises |-> r.raises, scheme |-> r.scheme, netloc |-> r.netloc,
      path |-> IF i > 0 THEN Before(r.path, i) ELSE r.path,
      params |-> IF i > 0 THEN From(r.path, i + 1) ELSE <<>>,
      query |-> r.query, fragment |-> r.fragment]

\* urlparse(url): urlsplit, then the params are split off the path
UrlParse(url) == SplitParams(UrlSplit(url))

\* urlunsplit: '//' and the netloc, the scheme, the query, the fragment
WithNetloc(scheme, netloc, url) ==
  IF netloc # <<>> \/ (/\ scheme # <<>>
                       /\ scheme \in UsesNetloc
                       /\ ~StartsWith(url, <<"/", "/">>))
    THEN <<"/", "/">> \o netloc
           \o (IF url # <<>> /\ url[1] # "/" THEN <<"/">> ELSE <<>>) \o url
    ELSE url
WithScheme(scheme, url) == IF scheme # <<>> THEN scheme \o <<":">> \o url ELSE url
\* if query: url = url + '?' + query, and the same for '#' and the fragment
WithPart(url, sep, part) == IF part # <<>> THEN url \o <<sep>> \o part ELSE url

\* urlunparse(components): the params go back to the path, then urlunsplit
UrlUnparse(c) ==
  WithPart(
    WithPart(
      WithScheme(c.scheme,
                 WithNetloc(c.scheme, c.netloc,
                            IF c.params # <<>> THEN c.path \o <<";">> \o c.params
                            ELSE c.path)),
      "?", c.query),
    "#", c.fragment)

\* -------------------------------------------------------- standardise_url
HttpsSlashes == <<"h", "t", "t", "p", "s", ":", "/", "/">>

\* Mutant: only the query is removed.
Cleaned_QueryOnly(parsed) == [parsed EXCEPT !.query = <<>>]

\* cleaned = parsed._replace(query="", fragment="")
Cleaned(parsed) == [parsed EXCEPT !.query = <<>>, !.fragment = <<>>]

\* Lines 102-108: the url that is parsed
Prefixed(domain, url) ==
  IF StartsWith(url, <<"/", "/">>)
    THEN <<"h", "t", "t", "p", "s", ":">> \o url
  ELSE IF /\ ~Contains(url, <<"h", "t", "t", "p">>)
          /\ ~Contains(url, <<"d", "a", "t", "a", ":", "i", "m", "a", "g", "e">>)
    THEN IF ~StartsWith(url, <<"/">>)
           THEN HttpsSlashes \o domain \o <<"/">> \o url
           ELSE HttpsSlashes \o domain \o url
  ELSE url

\* Lines 110-111 on what urlparse gave, ValueError if it raised
Unparsed(parsed) ==
  IF parsed.raises THEN ValueError ELSE UrlUnparse(Cleaned(parsed))

\* standardise_url(domain, url) for a str url: the str returned, or ValueError
StandardiseUrl(domain, url) == Unparsed(UrlParse(Prefixed(domain, url)))

\* ---------------------------------------------- calls of the pure methods
\* A call that has not returned, and one that has returned or raised `v`.
Pending == [done |-> FALSE]
Returned(v) == [done |-> TRUE, value |-> v]

\* The domains and the raw URLs the methods are called with: every head,
\* body and tail below, concatenated.
CallDomains == {<<"e", "x", "a", "m", "p", "l", "e", ".", "c", "o", "m">>,
                <<"x", ".", "i", "o">>}
RawUrls ==
  LET UrlHeads ==
        {<<>>,
         <<"/">>,
         <<"/", "/">>,
         <<"h", "t", "t", "p", "s", ":", "/", "/">>,
         <<"h", "t", "t", "p", ":", "/", "/">>,
         <<"H", "T", "T", "P", ":", "/", "/">>,
         <<"f", "t", "p", ":", "/", "/">>,
         <<"d", "a", "t", "a", ":", "i", "m", "a", "g", "e", "/">>,
         <<"/", "/", "[">>,
         <<" ", "/">>}
      UrlBodies ==
        {<<>>,
         <<"l", "o", "g", "o", ".", "p", "n", "g">>,
         <<"e", "x", "a", "m", "p", "l", "e", ".", "c", "o", "m", "/", "l", "o", "g", "o", ".", "p", "n", "g">>,
         <<"i", "m", "g", "/", "h", "t", "t", "p", ".", "p", "n", "g">>,
         <<"x", ".", "i", "o", "/", "a", ";", "b">>,
         <<"a", " ", "b", ".", "i", "c", "o">>}
      UrlTails ==
        {<<>>,
         <<"?", "f", "o", "o", "=", "b", "a", "r">>,
         <<"#", "t", "o", "p">>,
         <<"?", "v", "=", "1", "#", "x">>,
         <<"?", "h", "t", "t", "p">>}
  IN {h \o b \o t : h \in UrlHeads, b \in UrlBodies, t \in UrlTails}

\* A crawler that is constructed and not run.
InitIdle == InitCrawler({<<>>}, {DefaultMaxRetry}, {0}, {NoPlan}, {FALSE})

\* standardise_url is about to be called on a raw URL.
InitStandardiseUrl ==
  /\ InitIdle
  /\ op = "standardise_url"
  /\ arg \in [domain : CallDomains, url : RawUrls, is_output : {FALSE}]
  /\ ret = Pending

\* The call standardise_url(domain, url) returns or raises.
CallStandardiseUrl ==
  /\ op = "standardise_url"
  /\ ~ret.done
  /\ ret' = Returned(StandardiseUrl(arg.domain, arg.url))
  /\ UNCHANGED <<op, arg, crawler>>

\* The URL a call returned is passed to standardise_url again.
CallOnOutput ==
  /\ op = "standardise_url"
  /\ ret.done /\ ret.value # ValueError
  /\ ~arg.is_output
  /\ arg' = [domain |-> arg.domain, url |-> ret.value, is_output |-> TRUE]
  /\ ret' = Pending
  /\ UNCHANGED <<op, crawler>>

\* -------------------------------------------------------- extract_favicon
\* A link element is given by its href attribute, NoHref when it has none.
NoHref == <<"no href">>
Png == <<"p", "n", "g">>
Ico == <<"i", "c", "o">>

\* {el["href"] for el in elements if el.has_attr("href")}
HrefSet(elements) == {elements[i] : i \in 1..Len(elements)} \ {NoHref}

\* list(set): the iteration order of a set of str follows the hashes of the
\* strings, which differ from one interpreter process to the next; every
\* order of the distinct hrefs can come out.
HrefLists(elements) ==
  LET S == HrefSet(elements)
  IN {l \in [1..Cardinality(S) -> S] : \A i, j \in 1..Cardinality(S) : l[i] = l[j] => i = j}

\* max(group, key=len): the first element of maximal length
MaxByLen(group) ==
  group[CHOOSE i \in 1..Len(group) :
          /\ \A j \in 1..Len(group) : Len(group[j]) <= Len(group[i])
          /\ \A j \in 1..(i - 1) : Len(group[j]) < Len(group[i])]

\* Mutant: the .ico group is tried before the .png group.
ExtractFavicon_IcoFirst(domain, hrefs) ==
  LET pngs == SelectSeq(hrefs, LAMBDA h : Contains(Lower(h), Png))
      icos == SelectSeq(hrefs, LAMBDA h : Contains(Lower(h), Ico))
  IN IF icos # <<>> THEN StandardiseUrl(domain, MaxByLen(icos))
     ELSE IF pngs # <<>> THEN StandardiseUrl(domain, MaxByLen(pngs))
     ELSE IF hrefs # <<>> THEN StandardiseUrl(domain, MaxByLen(hrefs))
     ELSE NoUrl

\* extract_favicon after line 165, `hrefs` being the list made of the set
ExtractFavicon(domain, hrefs) ==
  LET pngs == SelectSeq(hrefs, LAMBDA h : Contains(Lower(h), Png))
      icos == SelectSeq(hrefs, LAMBDA h : Contains(Lower(h), Ico))
  IN IF pngs # <<>> THEN StandardiseUrl(domain, MaxByLen(pngs))
     ELSE IF icos # <<>> THEN StandardiseUrl(domain, MaxByLen(icos))
     ELSE IF hrefs # <<>> THEN StandardiseUrl(domain, MaxByLen(hrefs))
     ELSE NoUrl

\* The link elements of a page: at most MaxLinks of them, each without href
\* or with one of these hrefs.
MaxLinks == 3
LinkHrefs ==
  {<<"f", "a", "v", "i", "c", "o", "n", ".", "i", "c", "o">>,
   <<"/", "f", "a", "v", "i", "c", "o", "n", ".", "i", "c", "o">>,
   <<"l", "o", "g", "o", ".", "p", "n", "g">>,
   <<"i", "c", "o", "n", ".", "p", "n", "g">>,
   <<"I", "C", "O", "N", ".", "P", "N", "G">>,
   <<"l", "o", "g", "o", "2", ".", "p", "n", "g", "?", "v", "e", "r", "s", "i", "o", "n", "=", "1">>,
   <<"a", ".", "s", "v", "g">>,
   <<"b", ".", "s", "v", "g">>}
InitExtractFavicon ==
  /\ InitIdle
  /\ op = "extract_favicon"
  /\ arg \in [domain : CallDomains, elements : SeqsUpTo(LinkHrefs \cup {NoHref}, MaxLinks)]
  /\ ret = Pending

\* The call extract_favicon(domain, elements) returns or raises.
CallExtractFavicon ==
  /\ op = "extract_favicon"
  /\ ~ret.done
  /\ \E hrefs \in HrefLists(arg.elements) :
       ret' = Returned(ExtractFavicon(arg.domain, hrefs))
  /\ UNCHANGED <<op, arg, crawler>>

\* ---------------------------------------------------- extract_jsonld_logo
\* What json.loads returns: a str, a number, None, a list, or a dict given
\* as the sequence of its <<key, value>> pairs in insertion order.
JStr(x) == [t |-> "str", v |-> x]
JNum(n) == [t |-> "num", v |-> n]
JNull == [t |-> "null", v |-> 0]
JList(items) == [t |-> "list", v |-> items]
JDict(pairs) == [t |-> "dict", v |-> pairs]

Logo == <<"l", "o", "g", "o">>
\* The characters of the dict keys used here.
KeyChars(k) ==
  CASE k = "logo" -> Logo
    [] k = "url" -> <<"u", "r", "l">>
    [] k = "@graph" -> <<"@", "g", "r", "a", "p", "h">>
    [] k = "publisher" -> <<"p", "u", "b", "l", "i", "s", "h", "e", "r">>
    [] k = "Logo" -> <<"L", "o", "g", "o">>
    [] k = "URL" -> <<"U", "R", "L">>
    [] k = "@Graph" -> <<"@", "G", "r", "a", "p", "h">>
    [] k = "Publisher" -> <<"P", "u", "b", "l", "i", "s", "h", "e", "r">>
    [] OTHER -> <<"o", "t", "h", "e", "r">>

\* key in data, data[key]
HasKey(d, k) == \E i \in 1..Len(d.v) : d.v[i][1] = k
Get(d, k) == d.v[CHOOSE i \in 1..Len(d.v) : d.v[i][1] = k][2]

\* bool(x)
JTruthy(x) ==
  CASE x.t = "str" -> x.v # <<>>
    [] x.t = "num" -> x.v # 0
    [] x.t = "list" -> x.v # <<>>
    [] x.t = "dict" -> x.v # <<>>
    [] OTHER -> FALSE

\* A call ends by returning a value or by raising an exception.
Ok(x) == [exc |-> "", value |-> x]
Exc(e) == [exc |-> e, value |-> JNull]

\* What `for entry in x` iterates over: the items of a list, the characters
\* of a str, the keys of a dict; any other value is not iterable.
Iterable(x) == x.t \in {"list", "str", "dict"}
Entries(x) ==
  CASE x.t = "list" -> x.v
    [] x.t = "str" -> [i \in 1..Len(x.v) |-> JStr(<<x.v[i]>>)]
    [] x.t = "dict" -> [i \in 1..Len(x.v) |-> JStr(KeyChars(x.v[i][1]))]
    [] OTHER -> <<>>

\* "logo" in x, for the value x of data["publisher"]
LogoIn(x) ==
  CASE x.t = "dict" -> HasKey(x, "logo")
    [] x.t = "str" -> Contains(x.v, Logo)
    [] x.t = "list" -> \E i \in 1..Len(x.v) : x.v[i].t = "str" /\ x.v[i].v = Logo
    [] OTHER -> FALSE

RECURSIVE extract_logo(_), FirstResult(_)

\* Mutant: the loop runs from the last item to the first.
FirstResult_Last(items) ==
  IF items = <<>> THEN Ok(JNull)
  ELSE LET r == extract_logo(items[Len(items)])
       IN IF r.exc # "" \/ JTruthy(r.value) THEN r
          ELSE FirstResult(SubSeq(items, 1, Len(items) - 1))

\* for item in items: result = extract_logo(item); if result: return result
\* -- the value returned from inside the loop, None when the loop ends, or
\* the exception raised on the way.
FirstResult(items) ==
  IF items = <<>> THEN Ok(JNull)
  ELSE LET r == extract_logo(Head(items))
       IN IF r.exc # "" \/ JTruthy(r.value) THEN r ELSE FirstResult(Tail(items))

\* The nested function extract_logo(data).
extract_logo(data) ==
  IF data.t = "str" THEN Ok(data)
  ELSE IF data.t = "dict" THEN
    IF HasKey(data, "logo") THEN extract_logo(Get(data, "logo"))
    ELSE
      LET graph == IF ~HasKey(data, "@graph") THEN Ok(JNull)
                   ELSE IF ~Iterable(Get(data, "@graph")) THEN Exc("TypeError")
                   ELSE FirstResult(Entries(Get(data, "@graph")))
      IN IF graph.exc # "" \/ JTruthy(graph.value) THEN graph
         ELSE IF HasKey(data, "publisher") /\ ~Iterable(Get(data, "publisher"))
           THEN Exc("TypeError")
         ELSE IF HasKey(data, "publisher") /\ LogoIn(Get(data, "publisher"))
           THEN IF Get(data, "publisher").t = "dict"
                  THEN extract_logo(Get(Get(data, "publisher"), "logo"))
                  ELSE Exc("TypeError")
         ELSE IF HasKey(data, "url") THEN Ok(Get(data, "url"))
         ELSE Ok(JNull)
  ELSE IF data.t = "list" THEN FirstResult(data.v)
  ELSE Ok(JNull)

\* "logo" in element.string, for the text of a parsed value: a key or a str
\* of the value contains it.
RECURSIVE MentionsLogo(_)
MentionsLogo(x) ==
  CASE x.t = "str" -> Contains(x.v, Logo)
    [] x.t = "list" -> \E i \in 1..Len(x.v) : MentionsLogo(x.v[i])
    [] x.t = "dict" -> \E i \in 1..Len(x.v) :
                          Contains(KeyChars(x.v[i][1]), Logo) \/ MentionsLogo(x.v[i][2])
    [] OTHER -> FALSE

\* A script element: no string, or a text that is no JSON (with or without
\* the word logo in it), or the text of a JSON value.
NoString == [text |-> "none", json |-> JNull]
Malformed(with_logo) ==
  [text |-> IF with_logo THEN "malformed, logo" ELSE "malformed", json |-> JNull]
Block(x) == [text |-> "json", json |-> x]

\* One pass of the loop body, lines 152-158: the loop continues, the
\* method returns a URL, or an exception is raised inside the try.
Continue == [kind |-> "continue", value |-> NoUrl]
Return(u) == [kind |-> "return", value |-> u]
Raise(e) == [kind |-> "raise", value |-> <<e>>]

LoopBody(domain, element) ==
  IF element.text \in {"none", "malformed"} THEN Continue
  ELSE IF element.text = "malformed, logo" THEN Raise("JSONDecodeError")
  ELSE IF ~MentionsLogo(element.json) THEN Continue
  ELSE LET logo_url == extract_logo(element.json)
       IN IF logo_url.exc # "" THEN Raise(logo_url.exc)
          ELSE IF ~JTruthy(logo_url.value) THEN Continue
          ELSE IF logo_url.value.t # "str" THEN Raise("AttributeError")
          ELSE LET u == StandardiseUrl(domain, logo_url.value.v)
               IN IF u = ValueError THEN Raise("ValueError") ELSE Return(u)

\* Mutant: the loop body without its try / except.
TryBody_NoExcept(domain, element) == LoopBody(domain, element)

\* try: .. except Exception as e: logger.debug(..)
TryBody(domain, element) ==
  LET r == LoopBody(domain, element)
  IN IF r.kind = "raise" THEN Continue ELSE r

\* extract_jsonld_logo(domain, elements): the URL returned, NoUrl for None,
\* or the exception that leaves the method.
RECURSIVE ExtractJsonLdLogo(_, _)
ExtractJsonLdLogo(domain, elements) ==
  IF elements = <<>> THEN NoUrl
  ELSE LET r == TryBody(domain, Head(elements))
       IN IF r.kind = "continue" THEN ExtractJsonLdLogo(domain, Tail(elements))
          ELSE r.value

\* The script elements of a page: at most MaxBlocks of them, each without a
\* string, with a text that is no JSON, or with the text of one of these
\* values.
MaxBlocks == 2
JsonValues ==
  LET JsonScalars ==
        {JStr(<<"a", ".", "p", "n", "g">>), JStr(<<>>), JStr(<<"/", "/", "[", "x">>), JNum(5), JNull}
      JsonInner ==
        JsonScalars
        \cup {JDict(<<<<"url", x>>>>) : x \in JsonScalars}
        \cup {JDict(<<<<"logo", x>>>>) : x \in JsonScalars}
  IN {JDict(<<<<k, x>>>>) : k \in {"logo", "@graph", "publisher"}, x \in JsonInner}
    \cup {JDict(<<<<"logo", JDict(<<<<"logo", JDict(<<<<"url", JStr(<<"h", "t", "t", "p", "s", ":", "/", "/", "x", ".", "c", "o", "m", "/", "a", ".", "p", "n", "g">>)>>>>)>>>>)>>>>),
          JDict(<<<<"@graph", JList(<<JDict(<<<<"other", JNum(1)>>>>),
                                      JDict(<<<<"logo", JStr(<<"a", ".", "p", "n", "g">>)>>>>)>>)>>>>),
          JDict(<<<<"other", JStr(Logo)>>, <<"url", JStr(<<"/", "l", "o", "g", "o", ".", "p", "n", "g", "?", "v", "=", "2">>)>>>>),
          JDict(<<<<"logo", JStr(<<"d", "a", "t", "a", ":", "i", "m", "a", "g", "e", "/", "x">>)>>>>),
          JDict(<<<<"logo", JStr(<<"d", "a", "t", "a", ":", "x">>)>>>>)}

\* extract_jsonld_logo is about to be called on the script elements of a
\* page: at most MaxBlocks of them.
InitExtractJsonLd ==
  /\ InitIdle
  /\ op = "extract_jsonld_logo"
  /\ arg \in [domain : {<<"e", "x", "a", "m", "p", "l", "e", ".", "c", "o", "m">>},
              elements : SeqsUpTo({NoString, Malformed(TRUE), Malformed(FALSE)}
                                    \cup {Block(x) : x \in JsonValues},
                                  MaxBlocks)]
  /\ ret = Pending

\* The call extract_jsonld_logo(domain, elements) returns or raises.
CallExtractJsonLdLogo ==
  /\ op = "extract_jsonld_logo"
  /\ ~ret.done
  /\ ret' = Returned(ExtractJsonLdLogo(arg.domain, arg.elements))
  /\ UNCHANGED <<op, arg, crawler>>

\* The values of one script element, by shape: the patterns of the docstring
\* and of the tests, with URLs, null and numbers in the place of the logo,
\* with the keys in another letter case, with a url beside or instead of
\* the logo, and with two of publisher, @graph and url in one object.
JsonShapes ==
  LET Urls == {JStr(<<"a", ".", "p", "n", "g">>),
               JStr(<<"h", "t", "t", "p", "s", ":", "/", "/", "x", ".", "c", "o", "m", "/", "a", ".", "p", "n", "g">>),
               JStr(<<"/", "i", "m", "g", "/", "b", ".", "p", "n", "g">>)}
      D(k, x) == JDict(<<<<k, x>>>>)
      Leaves == Urls \cup {JNull}
      Items == {D("other", JNum(1)), D("logo", JNull),
                D("logo", JStr(<<"a", ".", "p", "n", "g">>)),
                D("logo", D("url", JStr(<<"/", "i", "m", "g", "/", "b", ".", "p", "n", "g">>))),
                D("url", JStr(<<"h", "t", "t", "p", "s", ":", "/", "/", "x", ".", "c", "o", "m", "/", "a", ".", "p", "n", "g">>))}
      Lists == {JList(<<>>)} \cup {JList(<<a>>) : a \in Items}
                 \cup {JList(<<a, b>>) : a \in Items, b \in Items}
  IN {D("logo", x) : x \in Leaves}
       \cup {D("logo", D("url", x)) : x \in Leaves}
       \cup {D("logo", D("logo", x)) : x \in Leaves}
       \cup {D("logo", D("logo", D("url", x))) : x \in Leaves}
       \cup {D("publisher", D("logo", x)) : x \in Leaves}
       \cup {D("publisher", D("logo", D("url", x))) : x \in Leaves}
       \cup {D("publisher", D("url", x)) : x \in Leaves}
       \cup {D("url", x) : x \in Leaves}
       \cup {JDict(<<<<"other", JStr(Logo)>>, <<"url", x>>>>) : x \in Leaves}
       \cup {JDict(<<<<"logo", y>>, <<"url", x>>>>) : x \in Urls, y \in Leaves}
       \cup {JDict(<<<<"url", x>>, <<"logo", y>>>>) : x \in Urls, y \in Leaves}
       \cup {D("other", JStr(Logo)), JDict(<<<<"@graph", JList(<<>>)>>, <<"other", JStr(Logo)>>>>)}
       \cup {D("@graph", l) : l \in Lists}
       \cup Lists
       \cup {D("Logo", x) : x \in Urls}
       \cup {D("logo", D("URL", x)) : x \in Urls}
       \cup {D("Publisher", D("logo", x)) : x \in Urls}
       \cup {D("@Graph", JList(<<D("logo", x)>>)) : x \in Urls}
       \cup {JDict(<<<<"publisher", D("logo", x)>>, <<"@graph", JList(<<D("logo", y)>>)>>>>) :
               x \in Urls, y \in Urls}
       \cup {JDict(<<<<"@graph", JList(<<D("logo", y)>>)>>, <<"publisher", D("logo", x)>>>>) :
               x \in Urls, y \in Urls}
       \cup {JDict(<<<<"@graph", JList(<<D("other", JNum(1))>>)>>, <<"publisher", D("logo", x)>>>>) :
               x \in Urls}
       \cup {JDict(<<<<"publisher", D("logo", x)>>, <<"url", y>>>>) : x \in Urls, y \in Urls}
       \cup {JDict(<<<<"@graph", JList(<<D("logo", x)>>)>>, <<"url", y>>>>) : x \in Urls, y \in Urls}

\* extract_jsonld_logo is about to be called on a page with one script
\* element.
InitJsonLdBlock ==
  /\ InitIdle
  /\ op = "extract_jsonld_logo"
  /\ arg \in [domain : {<<"e", "x", "a", "m", "p", "l", "e", ".", "c", "o", "m">>},
              elements : {<<Block(x)>> : x \in JsonShapes}]
  /\ ret = Pending

\* ------------------------------------------- the chain inside fetch_logo
InitFetchLogo ==
  /\ InitIdle
  /\ op = "fetch_logo"
  /\ arg \in [domain : Names \cup {StableName}, page : Pages]
  /\ ret = Pending

\* Lines 178-256 of fetch_logo, on a page as the request and the extractors
\* give it.
CallFetchLogo ==
  /\ op = "fetch_logo"
  /\ ~ret.done
  /\ ret' = Returned(FetchLogo(arg.domain, arg.page))
  /\ UNCHANGED <<op, arg, crawler>>

\* ----------------------------------- specifications of the method calls
SpecStandardiseUrl ==
  InitStandardiseUrl /\ [][CallStandardiseUrl \/ CallOnOutput]_vars

SpecExtractFavicon ==
  InitExtractFavicon /\ [][CallExtractFavicon]_vars

SpecExtractJsonLd ==
  InitExtractJsonLd /\ [][CallExtractJsonLdLogo]_vars

SpecJsonLdBlock ==
  InitJsonLdBlock /\ [][CallExtractJsonLdLogo]_vars

SpecFetchLogo ==
  InitFetchLogo /\ [][CallFetchLogo]_vars

\* -------------------------------------------------------------- main.py
\* The dict write_csv_stdout hands to the csv writer for one result:
\* row.get("error", "") if row["status"] == FAILURE_MSG else ""
CsvRow(row) ==
  [domain |-> row.domain, logo |-> row.logo, label |-> row.status,
   error |-> IF row.status = FAILURE_MSG
               THEN (IF row.error = Absent THEN "" ELSE row.error)
               ELSE ""]

\* sum(d for d, _ in r.get("attempts", []))
RECURSIVE SumDurations(_)
SumDurations(attempts) ==
  IF attempts = <<>> THEN 0 ELSE Head(attempts).duration + SumDurations(Tail(attempts))

\* The numbers summarize logs for a list of results: the counts by status,
\* and over the results with attempts the sum and the largest of their
\* times (the average is total_time / timed).
Summary(rs) ==
  LET N(S) == Cardinality({i \in 1..Len(rs) : rs[i].status \in S})
      timed == {i \in 1..Len(rs) : rs[i].attempts # <<>>}
      all_times == [i \in timed |-> SumDurations(rs[i].attempts)]
  IN [total |-> Len(rs),
      success |-> N({LOGO_FOUND, FAVICON_FOUND}),
      fail |-> N({NOTHING_FOUND, FAILURE_MSG}),
      jsonld |-> N({LOGO_FOUND}),
      favicon |-> N({FAVICON_FOUND}),
      nothing |-> N({NOTHING_FOUND}),
      failure |-> N({FAILURE_MSG}),
      timed |-> Cardinality(timed),
      total_time |-> SumDurations([i \in 1..Len(rs) |->
                                    [duration |-> SumDurations(rs[i].attempts)]]),
      max_time |-> IF timed = {} THEN 0
                   ELSE CHOOSE t \in {all_times[i] : i \in timed} :
                          \A i \in timed : all_times[i] <= t]

\* results = asyncio.run(crawl_with_queue(domains)); summarize(results)
Summarize ==
  /\ pcRun = "done"
  /\ op = "none"
  /\ op' = "summarize"
  /\ arg' = returned
  /\ ret' = Returned(Summary(returned))
  /\ UNCHANGED crawler

\* write_csv_stdout(results), which main calls after summarize: the rows
\* written after the header, one per result.
WriteCsvStdout ==
  /\ pcRun = "done"
  /\ op = "summarize"
  /\ op' = "write_csv_stdout"
  /\ arg' = returned
  /\ ret' = Returned([i \in 1..Len(returned) |-> CsvRow(returned[i])])
  /\ UNCHANGED crawler

\* The run of main.py: the crawl, then the summary, then the CSV output.
SpecMain == Init /\ [][Next \/ Summarize \/ WriteCsvStdout]_vars

StandardisedUrl == op = "standardise_url" /\ ret.done /\ ret.value # ValueError

\* C14: standardise_url returns none (no URL) when rawURL is empty or a
\* data: URI.
C14_EmptyOrDataIsNone ==
  (StandardisedUrl /\ (arg.url = <<>> \/ StartsWith(arg.url, <<"d", "a", "t", "a", ":">>))) =>
    ret.value = NoUrl

\* The host part of a rawURL that begins with //: up to the first / ? or #.
HostOf(url) ==
  LET ends == {k \in 3..Len(url) : url[k] \in {"/", "?", "#"}}
  IN SubSeq(url, 3, IF ends = {} THEN Len(url)
                    ELSE (CHOOSE k \in ends : \A j \in ends : k <= j) - 1)

ExampleCom == <<"e", "x", "a", "m", "p", "l", "e", ".", "c", "o", "m">>
ExampleLogo == <<"h", "t", "t", "p", "s", ":", "/", "/", "e", "x", "a", "m", "p", "l", "e", ".", "c", "o", "m", "/", "l", "o", "g", "o", ".", "p", "n", "g">>
ExampleInputs ==
  {<<"h", "t", "t", "p", "s", ":", "/", "/", "e", "x", "a", "m", "p", "l", "e", ".", "c", "o", "m", "/", "l", "o", "g", "o", ".", "p", "n", "g">>,
   <<"/", "/", "e", "x", "a", "m", "p", "l", "e", ".", "c", "o", "m", "/", "l", "o", "g", "o", ".", "p", "n", "g">>,
   <<"/", "l", "o", "g", "o", ".", "p", "n", "g">>,
   <<"l", "o", "g", "o", ".", "p", "n", "g">>,
   <<"/", "l", "o", "g", "o", ".", "p", "n", "g", "?", "f", "o", "o", "=", "b", "a", "r">>}

\* C15: the URL standardise_url returns has no query string and no fragment;
\* a rawURL that begins with // comes back with the scheme https: and its own
\* host; and for example.com the five inputs of test_standardise_url all
\* give https://example.com/logo.png.
C15_NoQueryNoFragment ==
  StandardisedUrl =>
    /\ ~Contains(ret.value, <<"?">>)
    /\ ~Contains(ret.value, <<"#">>)
    /\ StartsWith(arg.url, <<"/", "/">>) =>
         StartsWith(ret.value, HttpsSlashes \o HostOf(arg.url))
    /\ (arg.domain = ExampleCom /\ arg.url \in ExampleInputs) => ret.value = ExampleLogo

\* C15 witness: /logo.png?foo=bar for example.com has come back as
\* https://example.com/logo.png.
C15_Witness ==
  /\ StandardisedUrl
  /\ arg.domain = ExampleCom
  /\ arg.url = <<"/", "l", "o", "g", "o", ".", "p", "n", "g", "?", "f", "o", "o", "=", "b", "a", "r">>
  /\ ret.value = ExampleLogo

\* rawURL is absolute: scheme://...
IsAbsolute(url) ==
  LET i == Find(url, ":", 1)
  IN /\ i > 1
     /\ url[1] \in AsciiLetters
     /\ \A k \in 1..(i - 1) : url[k] \in SchemeChars
     /\ StartsWith(From(url, i + 1), <<"/", "/">>)

\* C16: a rawURL that is neither absolute nor scheme-relative comes back as
\* a URL under https://{domain}/, whatever characters it contains, and an
\* absolute URL keeps its own scheme and host.
C16_ResolvedUnderOrigin ==
  StandardisedUrl =>
    /\ (~IsAbsolute(arg.url) /\ ~StartsWith(arg.url, <<"/", "/">>)) =>
         StartsWith(ret.value, HttpsSlashes \o arg.domain \o <<"/">>)
    /\ IsAbsolute(arg.url) =>
         /\ UrlSplit(ret.value).scheme = UrlSplit(arg.url).scheme
         /\ UrlSplit(ret.value).netloc = UrlSplit(arg.url).netloc

\* C17: standardise_url gives back unchanged every URL that is itself an
\* output of standardise_url for the same domain.
C17_Idempotent ==
  (op = "standardise_url" /\ ret.done /\ arg.is_output) => ret.value = arg.url

\* ---- Claims about extract_favicon ----

\* The distinct hrefs of the link elements, and the group the selection is
\* made from: those with "png" in them whatever the case, else those with
\* "ico", else all of them.
PngHrefs(elements) == {h \in HrefSet(elements) : Contains(Lower(h), Png)}
IcoHrefs(elements) == {h \in HrefSet(elements) : Contains(Lower(h), Ico)}
ChosenGroup(elements) ==
  IF PngHrefs(elements) # {} THEN PngHrefs(elements)
  ELSE IF IcoHrefs(elements) # {} THEN IcoHrefs(elements)
  ELSE HrefSet(elements)
Longest(group) == {h \in group : \A g \in group : Len(g) <= Len(h)}

FaviconReturned == op = "extract_favicon" /\ ret.done

\* C18: extract_favicon returns the normalized form of a longest href (length
\* of the raw href) of the chosen group: the hrefs containing "png" in any
\* case if there are some, else those containing "ico", else all hrefs; it
\* returns None when no link element has an href.
C18_FaviconSelection ==
  FaviconReturned =>
    IF HrefSet(arg.elements) = {}
    THEN ret.value = NoUrl
    ELSE \E h \in Longest(ChosenGroup(arg.elements)) :
           ret.value = StandardiseUrl(arg.domain, h)

\* C18 witness: the links favicon.ico, logo.png, logo2.png?version=1 of
\* example.com give https://example.com/logo2.png.
C18_Witness ==
  /\ FaviconReturned
  /\ arg.domain = ExampleCom
  /\ arg.elements =
       <<<<"f", "a", "v", "i", "c", "o", "n", ".", "i", "c", "o">>,
         <<"l", "o", "g", "o", ".", "p", "n", "g">>,
         <<"l", "o", "g", "o", "2", ".", "p", "n", "g", "?", "v", "e", "r", "s", "i", "o", "n", "=", "1">>>>
  /\ ret.value = HttpsSlashes \o ExampleCom \o
                   <<"/", "l", "o", "g", "o", "2", ".", "p", "n", "g">>

\* The first element, in document order, whose href is a longest one of the
\* chosen group.
FirstSeen(elements) ==
  elements[CHOOSE i \in 1..Len(elements) :
             /\ elements[i] \in Longest(ChosenGroup(elements))
             /\ \A j \in 1..(i - 1) : elements[j] \notin Longest(ChosenGroup(elements))]

\* C19: when several hrefs of the chosen group have the maximal length,
\* extract_favicon returns the one seen first in document order, the same on
\* every run for the same sequence of link elements.
C19_TiesFirstSeen ==
  (FaviconReturned /\ HrefSet(arg.elements) # {}) =>
    ret.value = StandardiseUrl(arg.domain, FirstSeen(arg.elements))

\* ---- Claims about extract_jsonld_logo ----

JsonLdReturned == op = "extract_jsonld_logo" /\ ret.done

\* What leaves the method when an exception is not caught.
Exceptions ==
  {ValueError, <<"AttributeError">>, <<"TypeError">>, <<"JSONDecodeError">>}

\* The blocks that parse, traverse and normalize to a logo URL, and the
\* blocks on which one of these steps raises.
WellFormed(domain, element) == LoopBody(domain, element).kind = "return"
Raising(domain, element) == LoopBody(domain, element).kind = "raise"
FirstWellFormed(domain, elements) ==
  CHOOSE i \in 1..Len(elements) :
    /\ WellFormed(domain, elements[i])
    /\ \A j \in 1..(i - 1) : ~WellFormed(domain, elements[j])

\* C20: extract_jsonld_logo never raises; a block that is no JSON, or whose
\* traversal or normalization raises, is skipped, and the result is the logo
\* of the first block that yields one, None when no block does.
C20_BadBlocksSkipped ==
  JsonLdReturned =>
    /\ ret.value \notin Exceptions
    /\ IF \E i \in 1..Len(arg.elements) : WellFormed(arg.domain, arg.elements[i])
       THEN ret.value =
              LoopBody(arg.domain,
                       arg.elements[FirstWellFormed(arg.domain, arg.elements)]).value
       ELSE ret.value = NoUrl

\* C20 witness: {"logo": {"url": 5}} raises in standardise_url, the block
\* {"logo": "a.png"} after it gives https://example.com/a.png.
C20_Witness ==
  /\ JsonLdReturned
  /\ arg.elements =
       <<Block(JDict(<<<<"logo", JDict(<<<<"url", JNum(5)>>>>)>>>>)),
         Block(JDict(<<<<"logo", JStr(<<"a", ".", "p", "n", "g">>)>>>>))>>
  /\ Raising(arg.domain, arg.elements[1])
  /\ ret.value = HttpsSlashes \o ExampleCom \o <<"/", "a", ".", "p", "n", "g">>

\* ---- Claims about the search inside one structured-data block ----

\* The call was made on a page with one script element that parses, and has
\* returned; the parsed value of that element.
OneBlock ==
  JsonLdReturned /\ Len(arg.elements) = 1 /\ arg.elements[1].text = "json"
Data == arg.elements[1].json

Obj(k, x) == JDict(<<<<k, x>>>>)
LogoStrings ==
  {<<"a", ".", "p", "n", "g">>,
   <<"h", "t", "t", "p", "s", ":", "/", "/", "x", ".", "c", "o", "m", "/", "a", ".", "p", "n", "g">>,
   <<"/", "i", "m", "g", "/", "b", ".", "p", "n", "g">>}

\* The items of a list that name a logo, that name none, and the logo an
\* item names.
LogoItems == {Obj("logo", JStr(u)) : u \in LogoStrings}
               \cup {Obj("logo", Obj("url", JStr(u))) : u \in LogoStrings}
NoLogoItems == {Obj("other", JNum(1)), Obj("logo", JNull)}
ItemLogo(item) ==
  CHOOSE u \in LogoStrings : item \in {Obj("logo", JStr(u)), Obj("logo", Obj("url", JStr(u)))}
FirstLogo(items) ==
  ItemLogo(items[CHOOSE i \in 1..Len(items) :
                   /\ items[i] \in LogoItems
                   /\ \A j \in 1..(i - 1) : items[j] \notin LogoItems])

\* C21: a string under logo, under nested logo / url fields of a dictionary
\* under logo, and under publisher.logo is returned in its normalized form;
\* the items of an @graph list and of a list are tried in order and the first
\* one that names a logo wins; a null logo or url, an empty @graph and an
\* object without a matching field give None.
C21_Recursion ==
  OneBlock =>
    /\ \A u \in LogoStrings :
         Data \in {Obj("logo", JStr(u)),
                   Obj("logo", Obj("url", JStr(u))),
                   Obj("logo", Obj("logo", JStr(u))),
                   Obj("logo", Obj("logo", Obj("url", JStr(u)))),
                   Obj("publisher", Obj("logo", JStr(u))),
                   Obj("publisher", Obj("logo", Obj("url", JStr(u))))}
           => ret.value = StandardiseUrl(arg.domain, u)
    /\ Data \in {Obj("logo", JNull),
                 Obj("logo", Obj("url", JNull)),
                 Obj("logo", Obj("logo", JNull)),
                 Obj("logo", Obj("logo", Obj("url", JNull))),
                 Obj("publisher", Obj("logo", JNull)),
                 Obj("publisher", Obj("logo", Obj("url", JNull))),
                 Obj("other", JStr(Logo)),
                 JDict(<<<<"@graph", JList(<<>>)>>, <<"other", JStr(Logo)>>>>)}
         => ret.value = NoUrl
    /\ \A items \in SeqsUpTo(LogoItems \cup NoLogoItems, 2) :
         Data \in {JList(items), Obj("@graph", JList(items))}
           => ret.value = IF \E i \in 1..Len(items) : items[i] \in LogoItems
                            THEN StandardiseUrl(arg.domain, FirstLogo(items))
                            ELSE NoUrl

\* C21 witness: {"@graph": [{"other": 1}, {"logo": "a.png"}]} on a page of
\* example.com has given https://example.com/a.png.
C21_Witness ==
  /\ OneBlock
  /\ Data = Obj("@graph", JList(<<Obj("other", JNum(1)),
                                  Obj("logo", JStr(<<"a", ".", "p", "n", "g">>))>>))
  /\ ret.value = HttpsSlashes \o ExampleCom \o <<"/", "a", ".", "p", "n", "g">>

\* The value with the keys logo, publisher, url and @graph in lower case.
RECURSIVE LowerKeys(_)
LowerKeys(x) ==
  LET LowerKey(k) == CASE k = "Logo" -> "logo"
                       [] k = "URL" -> "url"
                       [] k = "Publisher" -> "publisher"
                       [] k = "@Graph" -> "@graph"
                       [] OTHER -> k
  IN CASE x.t = "dict" -> JDict([i \in 1..Len(x.v) |-> <<LowerKey(x.v[i][1]), LowerKeys(x.v[i][2])>>])
       [] x.t = "list" -> JList([i \in 1..Len(x.v) |-> LowerKeys(x.v[i])])
       [] OTHER -> x

\* C22: a block gives the same logo URL as the block that differs from it
\* only in the letter case of the keys logo, publisher, url and @graph.
C22_KeysCaseInsensitive ==
  OneBlock =>
    ret.value = ExtractJsonLdLogo(arg.domain, <<Block(LowerKeys(Data))>>)

\* C23: an object without a logo key, and without a publisher.logo or @graph
\* candidate, that has a string url gives that url in its normalized form,
\* also when the text of the block has the word logo nowhere; the url of an
\* object that has a logo key is never used.
C23_GenericUrlLastResort ==
  OneBlock =>
    /\ \A u \in LogoStrings :
         Data \in {Obj("url", JStr(u)),
                   JDict(<<<<"other", JStr(Logo)>>, <<"url", JStr(u)>>>>),
                   JList(<<Obj("url", JStr(u))>>),
                   Obj("@graph", JList(<<Obj("url", JStr(u))>>)),
                   JList(<<Obj("logo", JNull), Obj("url", JStr(u))>>)}
           => ret.value = StandardiseUrl(arg.domain, u)
    /\ \A u \in LogoStrings :
         Data \in {JDict(<<<<"logo", JNull>>, <<"url", JStr(u)>>>>),
                   JDict(<<<<"url", JStr(u)>>, <<"logo", JNull>>>>)}
           => ret.value = NoUrl
    /\ \A u, v \in LogoStrings :
         Data \in {JDict(<<<<"logo", JStr(v)>>, <<"url", JStr(u)>>>>),
                   JDict(<<<<"url", JStr(u)>>, <<"logo", JStr(v)>>>>)}
           => ret.value = StandardiseUrl(arg.domain, v)

\* ---- Claims about the worker, continued ----

\* C24: with max_retry = 1, one domain whose first fetch returns a failing
\* status and whose second would return a success status is fetched exactly
\* twice, and its single record carries the success status.
C24_SecondAttemptAtMaxRetryOne ==
  (/\ pcRun = "done"
   /\ max_retry = 1
   /\ Len(domains) = 1
   /\ patched
   /\ plan[1] # NoPlan
   /\ plan[1][1] \in {"nothing", "failure"}
   /\ plan[1][2] = "success")
    => /\ fetch_calls[1] = 2
       /\ Len(returned) = 1
       /\ returned[1].status \in SuccessStatuses

\* ---- Claims about the CSV output ----

\* The labels the docstring of write_csv_stdout lists.
DocumentedLabels == {"JSONLD_LOGO_FOUND", "FAVICON_FOUND", "NOTHING_FOUND", "FAILURE"}

\* C25: every row written by write_csv_stdout for the results of a completed
\* run has a label of the documented set, and its error column is non-empty
\* only when the label is FAILURE.
C25_CsvLabelsDocumented ==
  op = "write_csv_stdout" =>
    \A i \in 1..Len(ret.value) :
      /\ ret.value[i].label \in DocumentedLabels
      /\ ret.value[i].error # "" => ret.value[i].label = "FAILURE"

\* ---- Claims about the task records ----

\* Where the task of occurrence i is: the tasks of i in a queue, the workers
\* holding a task of i, and the state of i these give.
QueuedAt(q, i) == {k \in 1..Len(q.items) : q.items[k].occ = i}
HeldBy(tk, i) == {w \in DOMAIN tk : tk[w].occ = i}
TaskState(q, tk, fin, i) ==
  IF fin[i] # <<>> THEN "Terminal"
  ELSE IF HeldBy(tk, i) # {} THEN "InFlight"
  ELSE IF QueuedAt(q, i) # {} THEN "Queued"
  ELSE "New"

\* C26: a domain occurrence moves only from Queued to InFlight and from
\* InFlight back to Queued (a retry) or to Terminal; it enters the queue with
\* retry 1, no last_attempt_timestamp and no attempts; once its record is
\* appended it is never enqueued, dequeued or fetched again.
C26_TaskStateMachine ==
  /\ [][\A i \in Occurrences :
          LET before == TaskState(work_queue, task, final, i)
              after == TaskState(work_queue', task', final', i)
          IN /\ <<before, after>> \in
                  {<<"New", "New">>, <<"New", "Queued">>,
                   <<"Queued", "Queued">>, <<"Queued", "InFlight">>,
                   <<"InFlight", "InFlight">>, <<"InFlight", "Queued">>,
                   <<"InFlight", "Terminal">>, <<"Terminal", "Terminal">>}
             /\ (before = "New" /\ after = "Queued") =>
                  \A k \in QueuedAt(work_queue', i) :
                    /\ work_queue'.items[k].retry = 1
                    /\ work_queue'.items[k].last_attempt_timestamp = NoTimestamp
                    /\ work_queue'.items[k].attempts = <<>>
             /\ (before = "InFlight" /\ after = "Queued") =>
                  \A k \in QueuedAt(work_queue', i), w \in HeldBy(task, i) :
                    work_queue'.items[k].retry = task[w].retry + 1
             /\ before = "Terminal" =>
                  /\ final'[i] = final[i]
                  /\ fetch_calls'[i] = fetch_calls[i]
                  /\ QueuedAt(work_queue', i) = {}
                  /\ HeldBy(task', i) = {}]_vars
  /\ [](\A i \in Occurrences :
          final[i] # <<>> => QueuedAt(work_queue, i) = {} /\ HeldBy(task, i) = {})

\* C26 witness: an occurrence that was retried and then finalized, in a run
\* that has returned.
C26_Witness ==
  /\ pcRun = "done"
  /\ \E i \in Occurrences :
       /\ fetch_calls[i] >= 2
       /\ TaskState(work_queue, task, final, i) = "Terminal"
       /\ final[i][1].status = NOTHING_FOUND

\* C27: after the queue is populated every occurrence without a record has
\* exactly one task, which is either in the queue or held by one worker, and
\* an occurrence with a record has none; so no two workers hold a task of
\* the same occurrence.
C27_SingleOwnership ==
  pcRun # "init" =>
    /\ \A i \in Occurrences :
         Cardinality(QueuedAt(work_queue, i)) + Cardinality(HeldBy(task, i))
           = (IF final[i] = <<>> THEN 1 ELSE 0)
    /\ \A w1, w2 \in Workers :
         (w1 # w2 /\ task[w1] # NoTask /\ task[w2] # NoTask) =>
           task[w1].occ # task[w2].occ

\* C27 witness: two workers hold tasks at once, one of them a retry, and
\* both are inside the fetch.
C27_Witness ==
  \E w1, w2 \in Workers :
    /\ w1 # w2
    /\ pc[w1] = "fetching" /\ pc[w2] = "fetching"
    /\ task[w1].retry >= 2
    /\ task[w2] # NoTask

\* The attempts list of occurrence i: that of its record, else of its task.
AttemptsOf(q, tk, fin, i) ==
  IF fin[i] # <<>> THEN fin[i][1].attempts
  ELSE IF HeldBy(tk, i) # {} THEN tk[CHOOSE w \in HeldBy(tk, i) : TRUE].attempts
  ELSE IF QueuedAt(q, i) # {} THEN q.items[CHOOSE k \in QueuedAt(q, i) : TRUE].attempts
  ELSE <<>>

\* C28: the attempts list of an occurrence only grows, by one entry at the
\* end for each fetch that ends, and is carried whole into the retried task;
\* a queued task (and a held one, until its fetch ends) has retry - 1
\* entries, a record has as many entries as the number of its last attempt;
\* the time stamped at the start of an attempt is not after the time stamped
\* by the retry, which is before the time stamped at the start of the next.
C28_AttemptHistory ==
  /\ [](/\ \A k \in 1..Len(work_queue.items) :
             Len(work_queue.items[k].attempts) = work_queue.items[k].retry - 1
        /\ \A w \in Workers :
             task[w] # NoTask =>
               /\ Len(task[w].attempts) = task[w].retry - 1
               /\ HoldsSlot(w) => fetch_calls[task[w].occ] = task[w].retry
        /\ \A i \in Occurrences :
             final[i] # <<>> => Len(final[i][1].attempts) = fetch_calls[i])
  /\ [][\A i \in Occurrences :
          LET before == AttemptsOf(work_queue, task, final, i)
              after == AttemptsOf(work_queue', task', final', i)
              ended == \E w \in HeldBy(task, i) : pc[w] = "fetching" /\ pc'[w] = "get"
          IN IF ended
               THEN Len(after) = Len(before) + 1 /\ SubSeq(after, 1, Len(before)) = before
               ELSE after = before]_vars
  /\ [][\A w \in Workers :
          /\ (pc[w] \in {"get", "backoff"} /\ HoldsSlot(w)' /\ task'[w] # NoTask) =>
               LET carried == IF pc[w] = "get"
                                THEN Head(work_queue.items).last_attempt_timestamp
                                ELSE task[w].last_attempt_timestamp
               IN Truthy(carried) => carried < task'[w].last_attempt_timestamp
          /\ (pc[w] = "fetching" /\ pc'[w] = "get") =>
               \A k \in QueuedAt(work_queue', task[w].occ) :
                 task[w].last_attempt_timestamp
                   <= work_queue'.items[k].last_attempt_timestamp]_vars

\* C28 witness: a record of two attempts, the first without a logo and the
\* second a success.
C28_Witness ==
  \E i \in Occurrences :
    /\ final[i] # <<>>
    /\ Len(final[i][1].attempts) = 2
    /\ final[i][1].attempts[1].error # None
    /\ final[i][1].attempts[2].error = None

\* The attempts lists that exist: those of the queued tasks, of the held
\* tasks and of the records.
LiveAttempts ==
  {work_queue.items[k].attempts : k \in 1..Len(work_queue.items)}
    \cup {task[w].attempts : w \in Workers}
Records == {final[i][1] : i \in {j \in Occurrences : final[j] # <<>>}}
Last(seq) == seq[Len(seq)]

\* An entry has the error None exactly when its attempt had a success
\* status: the attempts that were retried had none, the last attempt of a
\* record has the status of the record.
EntriesMatchStatus ==
  /\ \A a \in LiveAttempts : \A k \in 1..Len(a) : a[k].error # None
  /\ \A r \in Records :
       /\ \A k \in 1..(Len(r.attempts) - 1) : r.attempts[k].error # None
       /\ Last(r.attempts).error = None <=> r.status \in SuccessStatuses

NothingLostAtCancel ==
  /\ \A w \in Workers : task[w] = NoTask /\ ~HoldsSlot(w)
  /\ work_queue.items = <<>>
  /\ semaphore = ConcurrentWorkers(domains)
  /\ semaphore' = semaphore
  /\ \A i \in Occurrences :
       Len(final[i]) = 1 /\ Len(final[i][1].attempts) = fetch_calls[i]
  /\ results' = results /\ final' = final /\ fetch_calls' = fetch_calls

\* C30 as stated: when run() cancels the workers, every worker is suspended
\* at the dequeue, and nothing is lost.
C30_CancelledAtDequeue ==
  [][(pcRun = "join" /\ pcRun' = "gather") =>
       /\ \A w \in Workers : pc[w] = "get"
       /\ NothingLostAtCancel]_vars

\* C30 amended: when run() cancels the workers, every worker is suspended at
\* the dequeue, or, if the list of domains is empty, has not run a step; no
\* worker is in a pacing delay, a backoff sleep or a fetch, and nothing is
\* lost.
C30_CancelledAtDequeueOrUnstarted ==
  [][(pcRun = "join" /\ pcRun' = "gather") =>
       /\ \A w \in Workers : pc[w] = (IF domains = <<>> THEN "new" ELSE "get")
       /\ NothingLostAtCancel]_vars

\* C30 witness: the workers have been cancelled after a run in which a
\* domain was retried.
C30_Witness ==
  /\ pcRun = "gather"
  /\ \A w \in Workers : pc[w] = "cancelled"
  /\ \E i \in Occurrences : fetch_calls[i] >= 2 /\ Len(final[i]) = 1

\* ---- Claims about the records of a run ----

\* C31: a step changes no record of self.results and moves none (the list
\* only grows at its end), and the attempts list of an occurrence that has a
\* record gets no further entry: no fetch for that occurrence ends, and the
\* attempts of its record stay as they are.
C31_RecordsImmutable ==
  [][/\ Len(results') >= Len(results)
     /\ SubSeq(results', 1, Len(results)) = results
     /\ \A i \in Occurrences :
          final[i] # <<>> =>
            /\ final'[i] = final[i]
            /\ ~ \E w \in Workers :
                   task[w].occ = i /\ pc[w] = "fetching" /\ pc'[w] = "get"
            /\ \E k \in 1..Len(results') : results'[k] = final[i][1]]_vars

\* C31 witness: a first record was appended, and after it the worker made a
\* second attempt for another domain and appended its record.
C31_Witness ==
  /\ Len(results) = 2
  /\ Len(results[1].attempts) = 1
  /\ Len(results[2].attempts) >= 2
  /\ results[1].domain # results[2].domain

\* ---- Claims about the order of the fields of one object ----

\* An object with two of the fields, in the order given.
Obj2(k1, x1, k2, x2) == JDict(<<<<k1, x1>>, <<k2, x2>>>>)

\* C32: in one object the logo field is used before publisher.logo, that
\* before @graph, and that before url: an object without a logo key that has
\* a publisher with a logo and an @graph list with an element that has a
\* logo gives the logo of the publisher, in either order of the two keys; a
\* url beside a logo, a publisher.logo or an @graph candidate is not used.
C32_PublisherBeforeGraph ==
  OneBlock =>
    \A u \in LogoStrings : \A v \in LogoStrings \ {u} :
      /\ Data \in {Obj2("publisher", Obj("logo", JStr(u)),
                        "@graph", JList(<<Obj("logo", JStr(v))>>)),
                   Obj2("@graph", JList(<<Obj("logo", JStr(v))>>),
                        "publisher", Obj("logo", JStr(u)))}
           => ret.value = StandardiseUrl(arg.domain, u)
      /\ Data \in {Obj2("logo", JStr(u), "url", JStr(v)),
                   Obj2("url", JStr(v), "logo", JStr(u)),
                   Obj2("publisher", Obj("logo", JStr(u)), "url", JStr(v)),
                   Obj2("@graph", JList(<<Obj("logo", JStr(u))>>), "url", JStr(v))}
           => ret.value = StandardiseUrl(arg.domain, u)

\* ---- Claims about a candidate that is no usable URL ----

\* The blocks {"logo": "data:image/x"} and {"logo": "data:x"}.
DataUriBlocks ==
  {Block(Obj("logo", JStr(<<"d", "a", "t", "a", ":", "i", "m", "a", "g", "e", "/", "x">>))),
   Block(Obj("logo", JStr(<<"d", "a", "t", "a", ":", "x">>)))}

\* C33: a block whose logo is a data: URI counts as a block without a
\* candidate: of two blocks of which the first is such a block, the result is
\* that of the second block alone, its logo URL if it has one and None
\* otherwise.
C33_DataUriBlockSkipped ==
  (JsonLdReturned /\ Len(arg.elements) = 2 /\ arg.elements[1] \in DataUriBlocks
     /\ arg.elements[2] \notin DataUriBlocks) =>
    ret.value = ExtractJsonLdLogo(arg.domain, <<arg.elements[2]>>)

\* ---- Claims about the number of attempts ----

C36_SummaryMatchesCounters ==
  (op = "summarize" /\ ret.done) =>
    /\ ret.value.success + ret.value.fail = ret.value.total
    /\ ret.value.success = successes
    /\ ret.value.fail = failures

====
